---- MODULE Spec2Model ----
(***************************************************************************)
(* Model of the request pipeline of BA-AI: the WebSocket message handler   *)
(* (/ws/stream), the POST /api/cancel endpoint, the active-request         *)
(* registry, conversation memory, and the file-backed memory store.        *)
(*                                                                         *)
(* JavaScript runs handlers to the next await without interleaving, so     *)
(* every action below is the code between two awaits of one handler.       *)
(***************************************************************************)
EXTENDS Integers, Sequences, FiniteSets, TLC

\* ------------------------------------------------------------------ bounds
\* Requests (WebSocket messages, each on its own socket) in one run.
Reqs == {"a", "b"}
\* requestId values a client may put in its payload.
ClientIds == {"x"}
\* Most tokens a backend streams in one attempt.
MaxTokens == 1
\* Most reasoning phases generatePhases returns for a request.
MaxPhases == 2

\* saveMemory calls (and response-cache saves) that may be in flight at once.
MaxInFlight == 2
\* Memory entries stored beyond MAX_ENTRIES in one run.
MaxOver == 2
\* DELETE /api/memory/entries/:id requests in one run.
MaxDeletes == 1
\* Memory entries whose expiresAt passes in one run.
MaxExpired == 1
\* POST /api/memory/entries/purge requests in one run.
MaxPurges == 1

\* setCachedResponse calls with a new cache key in one run.
MaxCacheSets == 2
\* Cache entries found past their TTL by getCachedResponse in one run.
MaxCacheExpiries == 1
\* POST /api/auto requests handled
MaxRequests == 2
\* distinct texts a backend LM call may return
MaxOutputs == 2

\* conversation-buffer runs: appends over all users, rememberCode calls, clears
MaxAdds == 17

MaxCodes == 1

MaxClears == 1

ConvUsers == {"u1", "u2"}

\* report runs: generateReportAsync calls made
MaxJobs == 4

ReportIds == {"r1", "r2"}

\* recall runs: memory entries stored
MaxStored == 5

\* longest string handed to the arithmetic evaluator
MaxExprLen == 4

\* storeInCache calls in one run
MaxKvWrites == 3

MaxReplies == 9
MaxSummaryCalls == 2
MaxLdSets == 3
MaxReportTokens == 12
\* ------------------------------------------------------- program constants
SUMMARY_EVERY_MESSAGES == 8
MaxMemorySize == 15

MAX_ENTRIES == 500
MAX_CACHE_SIZE == 500
MAX_CACHE_ENTRIES == 500

\* limit passed to queryMemoryEntries by the chat handlers
RecallLimit == 4

None == "none"
ReasoningModel == "deepseek-r1"
Models == {ReasoningModel, "llama3.2"}
Intents == {"MATH_REASONING", "RANKING_QUERY", "SIMPLE_QA"}

VARIABLES
  pc,            \* position of each request's handler
  events,        \* events delivered to the client, per request, in send order
  responseText,  \* accumulated answer of the current attempt
  usedModel,     \* model of the current attempt
  intent,        \* classifyIntent(incomingPrompt).intent, once computed
  hasSources,    \* webSources.length > 0, once web context was assembled
  userStored,    \* the handler's userStored flag
  requestId,     \* id under which the controller was registered
  aborted,       \* controller.signal.aborted
  closeHandler,  \* the ws.once("close") listener is registered and not fired
  wsOpen,        \* the request's socket is open
  phaseIdx,      \* reasoning phases sent so far; numPhases+1 = emitter ended
  numPhases,     \* phases.length
  activeRequests,\* the registry: requestId -> owner of the controller
  conversation,  \* conversationMemory's buffer of the user
  backendCalls,  \* backend LM calls made for a request, in call order
  cancelStage,   \* where the handler stood when POST /api/cancel answered
                 \* "cancelled" for its handle ("no": never)
  responseCache  \* requests whose answer was written to the response caches

wsVars == <<pc, events, responseText, usedModel, intent, hasSources,
            userStored, requestId, aborted, closeHandler, wsOpen, phaseIdx,
            numPhases, activeRequests, conversation, backendCalls, cancelStage,
            responseCache>>

VARIABLES
  memoryEntries, \* index into arrays of the server's memoryEntries array
  arrays,        \* the arrays ever bound to memoryEntries (filter makes a new one)
  memoryFile,    \* entries of data/memory.json
  saves,         \* saveMemory calls in flight
  nextId,        \* next memory entry id
  lastSaved,     \* the list the most recently completed saveMemory sliced
  expired,       \* ids of the entries whose expiresAt precedes now
  purges,        \* POST /api/memory/entries/purge requests received
  purged,        \* ids removed by the purges that have answered
  queried        \* the last memory query: entries returned, expired ids among them

memVars == <<memoryEntries, arrays, memoryFile, saves, nextId, lastSaved,
             expired, purges, purged, queried>>

VARIABLES
  cache,         \* keys of responseCache's Map, in insertion order
  cacheLoaded,   \* the cacheLoaded flag
  cacheLoad,     \* ensureCacheLoaded: "idle", "reading" (before readFile), "done"
  cacheFile,     \* keys of the items of data/response_cache.json
  cacheFileWhole,\* the bytes of response_cache.json are one complete document
  saveTimer,     \* scheduleSave's timer is armed
  cacheSaves,    \* cache saves in flight (timer callbacks past their start)
  nextKey,       \* next new cache key
  cacheExpiries, \* entries getCachedResponse has deleted as expired
  cacheRead      \* what the last readFile of response_cache.json returned

cacheVars == <<cache, cacheLoaded, cacheLoad, cacheFile, cacheFileWhole,
               saveTimer, cacheSaves, nextKey, cacheExpiries, cacheRead>>

VARIABLES
  autoPc,          \* position of the POST /api/auto handler
  autoPrompt,      \* incomingPrompt of the request being handled
  autoWeb,         \* the request's autoWeb field
  rewrittenPrompt, \* output of rewritePrompt (0: none, or it threw)
  autoText,        \* handleAiRequest's responseText before quality control
  autoCalls,       \* backend LM calls made for the request, in call order
  replies,         \* outcome of every request handled, in order
  modelCache,      \* the server's in-memory model-response cache, in insertion order
  webConfigEnabled,\* webConfig.enabled !== false
  qualityEnabled,  \* qualityConfig.enabled
  toolsEnabled     \* toolsConfig.enabled !== false

httpVars == <<autoPc, autoPrompt, autoWeb, rewrittenPrompt, autoText, autoCalls,
              replies, modelCache, webConfigEnabled, qualityEnabled, toolsEnabled>>

VARIABLES
  ansPath,       \* how the last answer was produced ("none": no answer yet)
  ansDraft,      \* section headings of the text the backend returned
  ansFinal,      \* section headings of the answer delivered to the user
  ansCached      \* section headings of the text in the response cache

ansVars == <<ansPath, ansDraft, ansFinal, ansCached>>

VARIABLES
  chainPc,       \* position of the POST /api/tools/chain handler
  toolCalls,     \* req.body.toolCalls: what each call's tool will do
  outputs,       \* the handler's outputs array
  chainSeen,     \* the tool results in the prompt of the final LM call
  chainStatus,   \* status of the response (0: none yet)
  execPc,        \* position of ToolExecutor.executeChain
  execTools,     \* its tools argument: what each tool will do
  execIdx,       \* index of the tool executeChain runs next
  results,       \* executeChain's results object: index -> result
  timeline       \* executeChain's timeline: success flag of each step run

chainVars == <<chainPc, toolCalls, outputs, chainSeen, chainStatus,
               execPc, execTools, execIdx, results, timeline>>

VARIABLES
  conversations, \* ConversationMemory.conversations: userId -> message buffer
  convAdds,      \* messages ever appended for each user
  convCodes,     \* rememberCode calls made
  convClears     \* clearConversation / clearAll / clearOldConversations calls made

convVars == <<conversations, convAdds, convCodes, convClears>>

VARIABLES
  activeReports, \* ReportGenerator.activeReports: the reportIds that have an entry
  reportJobs,    \* position of every generateReportAsync call made, in call order
  reportHistory  \* ReportGenerator.reportHistory: reportId of each stored report

repVars == <<activeReports, reportJobs, reportHistory>>

VARIABLES
  recallEntries, \* the memory entries a recall is run over
  recallOptions, \* options of the last recall, as a one-element sequence (<<>>: no recall yet)
  recalled       \* the entries the last recall returned

recallVars == <<recallEntries, recallOptions, recalled>>

VARIABLES
  expr,          \* the string handed to safeEvaluateExpression, one character per element
  exprResult     \* what safeEvaluateExpression returned for it (<<>>: not called yet)

exprVars == <<expr, exprResult>>

VARIABLES
  attemptError   \* per request, the last error the backend delivered to an attempt

errVars == <<attemptError>>

VARIABLES
  kvCache,       \* the server's responseCache Map: its entries in insertion order
  kvBefore,      \* the Map as it was before the last storeInCache
  kvLast,        \* key and value of the last storeInCache (<<>>: none yet)
  kvWrites       \* storeInCache calls made

kvVars == <<kvCache, kvBefore, kvLast, kvWrites>>

VARIABLES
  ctxPc,         \* position of the chat handler between the instant engine and generation
  ctxReq,        \* the request: payload flags, prompt predicates, classified intent
  ctxLight,      \* shouldBypassHeavyWork of incomingPrompt as it is now
  ctxBypass,     \* the handler's bypassHeavy (FALSE until it is computed)
  ctxSources,    \* webSources is not empty
  ctxOps         \* the heavy operations performed for the request

ctxVars == <<ctxPc, ctxReq, ctxLight, ctxBypass, ctxSources, ctxOps>>

VARIABLES
  sumConv,       \* conversationMemory.conversations, per user
  sumAdded,      \* messages added to the user's conversation so far
  sumTimers,     \* per user, the summarizeConversationIfNeeded timers not yet fired
  sumCalls,      \* the summaries awaiting the model: <<[userId, total]>>
  sumTracker,    \* conversationSummaryTracker
  sumEmitted,    \* per user, the conversation_summary entries pushed to memoryEntries
  sumFailed      \* a summary call or its save has thrown

sumVars == <<sumConv, sumAdded, sumTimers, sumCalls, sumTracker, sumEmitted, sumFailed>>

VARIABLES
  ldCache,       \* the response cache's Map: <<[key, timestamp]>> in insertion order
  ldLoad,        \* ensureCacheLoaded: "idle", "reading", "done"
  ldFile,        \* the items of response_cache.json
  ldTimer,       \* scheduleSave's timer is armed
  ldClock,       \* Date.now()
  ldSet          \* per key, the timestamp of its last setCachedResponse (0: none)

ldVars == <<ldCache, ldLoad, ldFile, ldTimer, ldClock, ldSet>>

VARIABLES
  progPc,        \* per report id, its job: "idle", "streaming", "done", "failed"
  progEntry,     \* per report id, its activeReports entry (<<>>: none)
  progTokens,    \* tokenCount of the job
  progLast       \* per report id, the last value given to onProgress (<<>>: none)

progVars == <<progPc, progEntry, progTokens, progLast>>

mainVars == <<wsVars, memVars, cacheVars, httpVars>>

extraVars == <<ansVars, chainVars, convVars, repVars, recallVars, exprVars, errVars, kvVars, ctxVars, sumVars, ldVars, progVars>>

vars == <<mainVars, extraVars>>

nonWsVars == <<memVars, cacheVars, httpVars, extraVars>>

nonMemVars == <<wsVars, cacheVars, httpVars, extraVars>>

nonCacheVars == <<wsVars, memVars, httpVars, extraVars>>

nonHttpVars == <<wsVars, memVars, cacheVars, extraVars>>

nonAnsVars == <<mainVars, chainVars, convVars, repVars, recallVars, exprVars, errVars, kvVars, ctxVars, sumVars, ldVars, progVars>>

nonChainVars == <<mainVars, ansVars, convVars, repVars, recallVars, exprVars, errVars, kvVars, ctxVars, sumVars, ldVars, progVars>>

nonConvVars == <<mainVars, ansVars, chainVars, repVars, recallVars, exprVars, errVars, kvVars, ctxVars, sumVars, ldVars, progVars>>

nonRepVars == <<mainVars, ansVars, chainVars, convVars, recallVars, exprVars, errVars, kvVars, ctxVars, sumVars, ldVars, progVars>>

nonRecallVars == <<mainVars, ansVars, chainVars, convVars, repVars, exprVars, errVars, kvVars, ctxVars, sumVars, ldVars, progVars>>

nonExprVars == <<mainVars, ansVars, chainVars, convVars, repVars, recallVars, errVars, kvVars, ctxVars, sumVars, ldVars, progVars>>

nonWsErrVars == <<memVars, cacheVars, httpVars, ansVars, chainVars, convVars, repVars, recallVars, exprVars, kvVars, ctxVars, sumVars, ldVars, progVars>>

nonErrVars == <<mainVars, ansVars, chainVars, convVars, repVars, recallVars, exprVars, kvVars, ctxVars, sumVars, ldVars, progVars>>

nonKvVars == <<mainVars, ansVars, chainVars, convVars, repVars, recallVars, exprVars, errVars, ctxVars, sumVars, ldVars, progVars>>

nonCtxVars == <<mainVars, ansVars, chainVars, convVars, repVars, recallVars, exprVars, errVars, kvVars, sumVars, ldVars, progVars>>

nonSumVars == <<mainVars, ansVars, chainVars, convVars, repVars, recallVars, exprVars, errVars, kvVars, ctxVars, ldVars, progVars>>

nonLdVars == <<mainVars, ansVars, chainVars, convVars, repVars, recallVars, exprVars, errVars, kvVars, ctxVars, sumVars, progVars>>

nonProgVars == <<mainVars, ansVars, chainVars, convVars, repVars, recallVars, exprVars, errVars, kvVars, ctxVars, sumVars, ldVars>>

\* ------------------------------------------------------------------ helpers
U(f, r, v) == [f EXCEPT ![r] = v]

GenId(r) == "gen-" \o r
Ids == ClientIds \cup {GenId(r) : r \in Reqs}

Ev(t, a, m, why) == [type |-> t, att |-> a, model |-> m, reason |-> why]

\* ws.send: a frame written to a socket that is no longer open is dropped.
Send(log, open, evs) == IF open THEN log \o evs ELSE log

AddMessageDropNewest(conv, role, r) ==
  LET c == Append(conv, [role |-> role, req |-> r])
  IN  IF Len(c) > MaxMemorySize
        THEN Append(SubSeq(conv, 1, MaxMemorySize - 1), [role |-> role, req |-> r])
        ELSE c

\* ConversationMemory.addMessage: push, then shift when over maxMemorySize.
AddMessage(conv, role, r) ==
  LET c == Append(conv, [role |-> role, req |-> r])
  IN  IF Len(c) > MaxMemorySize THEN Tail(c) ELSE c

\* storeUserMessage: stores the user's prompt unless userStored is set.
StoreUserMessage(conv, stored, r) ==
  IF stored THEN conv ELSE AddMessage(conv, "user", r)

\* storeAssistantMessage: stores the reply when it is non-empty.
StoreAssistantMessage(conv, text, r) ==
  IF text # <<>> THEN AddMessage(conv, "assistant", r) ELSE conv

Call(kind, stored) == [kind |-> kind, stored |-> stored]

\* The fallback model chosen from the intent (never the reasoning model).
FallbackModels(i) ==
  IF i = "MATH_REASONING" THEN {"gemma:2b", "qwen3"} ELSE {"llama3.2"}

\* ReasoningEngine.generatePhases: one phase for SIMPLE_QA, otherwise one,
\* two, four or five by math complexity and web use (cut off at MaxPhases).
PhaseCounts(i) ==
  IF i = "SIMPLE_QA" THEN {1} ELSE 1..MaxPhases

\* What POST /api/cancel answers for an id in the current state.
CancelStatus(id) ==
  IF activeRequests[id] # None THEN "cancelled" ELSE "not_found"

Terminal == {"ended", "thrown"}

\* ---------------------------------------------------------------- initial
WsInit ==
  /\ pc = [r \in Reqs |-> "idle"]
  /\ events = [r \in Reqs |-> <<>>]
  /\ responseText = [r \in Reqs |-> <<>>]
  /\ usedModel = [r \in Reqs |-> None]
  /\ intent = [r \in Reqs |-> "unset"]
  /\ hasSources = [r \in Reqs |-> FALSE]
  /\ userStored = [r \in Reqs |-> FALSE]
  /\ requestId = [r \in Reqs |-> None]
  /\ aborted = [r \in Reqs |-> FALSE]
  /\ closeHandler = [r \in Reqs |-> FALSE]
  /\ wsOpen = [r \in Reqs |-> TRUE]
  /\ phaseIdx = [r \in Reqs |-> 0]
  /\ numPhases = [r \in Reqs |-> 0]
  /\ activeRequests = [id \in Ids |-> None]
  /\ conversation = <<>>
  /\ backendCalls = [r \in Reqs |-> <<>>]
  /\ cancelStage = [r \in Reqs |-> "no"]
  /\ responseCache = {}

genVars == <<responseText, usedModel, requestId, aborted, closeHandler,
             phaseIdx, numPhases, activeRequests>>

\* ------------------------------------------------- fragments of the handler
\* sendLocalResponse(text, model) followed by return.  log is what the
\* handler has sent so far in this step, i the value of intent.
SendLocalResponse(r, log, model, i) ==
  /\ conversation' =
       AddMessage(StoreUserMessage(conversation, userStored[r], r), "assistant", r)
  /\ userStored' = U(userStored, r, TRUE)
  /\ events' = U(events, r, Send(log, wsOpen[r],
                   <<Ev("token", 0, "", ""), Ev("done", 0, model, "")>>))
  /\ pc' = U(pc, r, "ended")
  /\ intent' = U(intent, r, i)
  /\ UNCHANGED <<genVars, hasSources, wsOpen, backendCalls, cancelStage, responseCache>>

\* The catch block as it would run were usedModel in scope: the error event
\* and activeRequests.delete.
OuterCatchErrorSends(r, log) ==
  /\ events' = U(events, r, Send(log, wsOpen[r], <<Ev("error", 0, "", "generation")>>))
  /\ pc' = U(pc, r, "ended")
  /\ activeRequests' = U(activeRequests, requestId[r], None)

\* The handler's catch block for a non-abort error: console.error, then
\* the read of usedModel (declared inside the try block) throws a
\* ReferenceError, so neither the error event nor activeRequests.delete runs.
OuterCatchError(r, log) ==
  /\ events' = U(events, r, log)
  /\ pc' = U(pc, r, "thrown")
  /\ UNCHANGED activeRequests

\* The catch block without its AbortError guard: an error event on abort too.
OuterCatchAbortSends(r, log) ==
  /\ events' = U(events, r, Send(log, wsOpen[r], <<Ev("error", 0, "", "cancelled")>>))
  /\ pc' = U(pc, r, "ended")
  /\ activeRequests' = U(activeRequests, requestId[r], None)

\* The handler's catch block for an AbortError: only activeRequests.delete.
OuterCatchAbort(r, log) ==
  /\ events' = U(events, r, log)
  /\ pc' = U(pc, r, "ended")
  /\ activeRequests' = U(activeRequests, requestId[r], None)

\* Registration of the controller and start of the first attempt.
StartGeneration(r, log, src) ==
  \E m \in Models, id \in ClientIds \cup {GenId(r)}, n \in PhaseCounts(intent[r]) :
    /\ usedModel' = U(usedModel, r, m)
    /\ requestId' = U(requestId, r, id)
    /\ activeRequests' = U(activeRequests, id, r)
    /\ closeHandler' = U(closeHandler, r, wsOpen[r])
    /\ aborted' = U(aborted, r, FALSE)
    /\ numPhases' = U(numPhases, r, n)
    /\ phaseIdx' = U(phaseIdx, r, 1)
    /\ events' = U(events, r, Send(log, wsOpen[r], <<Ev("reasoning_phase", 0, "", "")>>))
    /\ responseText' = U(responseText, r, <<>>)
    /\ backendCalls' = U(backendCalls, r, Append(backendCalls[r], Call("attempt", userStored[r])))
    /\ pc' = U(pc, r, "attempt1")
    /\ hasSources' = U(hasSources, r, src)
    /\ UNCHANGED <<intent, userStored, wsOpen, conversation, cancelStage, responseCache>>

\* From the end of the web-search block to the next await.  autoRequested
\* (payload.auto === true || payload.task === "auto") is read here.
PostWeb(r, log) ==
  \E autoRequested \in BOOLEAN :
    \/ \* trySolveSimpleMath on a simple math prompt, or greeting/instant/math-level
       /\ intent[r] = "MATH_REASONING" \/ autoRequested
       /\ SendLocalResponse(r, log, "local-math", intent[r])
    \/ \* a tool command while tools are disabled
       /\ autoRequested
       /\ events' = U(events, r, Send(log, wsOpen[r], <<Ev("error", 0, "", "Tools disabled.")>>))
       /\ pc' = U(pc, r, "ended")
       /\ UNCHANGED <<genVars, intent, hasSources, userStored, wsOpen,
                      conversation, backendCalls, cancelStage, responseCache>>
    \/ \* a tool command: await the tool; otherwise await context assembly
       /\ autoRequested
       /\ events' = U(events, r, log)
       /\ \E next \in {"tool", "assemble"} : pc' = U(pc, r, next)
       /\ UNCHANGED <<genVars, intent, hasSources, userStored, wsOpen,
                      conversation, backendCalls, cancelStage, responseCache>>
    \/ \* plain request: straight to generation, webSources stays empty
       /\ ~autoRequested
       /\ StartGeneration(r, log, FALSE)

\* The models the local shortcuts after the simple-QA fast path answer under.
LocalModels == {"local-math", "local-conversion", "local-structured-math",
                "local-formula", "common-sense"}

\* From the word-math shortcut to the next await: the remaining local
\* solvers, storeUserMessage, intent classification, the instant engine.
PostQa(r) ==
  \/ \* word math, unit conversion, structured math, formula, expression,
     \* common sense
     \E m \in LocalModels : SendLocalResponse(r, events[r], m, intent[r])
  \/ \E i \in Intents :
       LET log == Send(events[r], wsOpen[r], <<Ev("intent_classification", 0, "", i)>>)
       IN
       \/ \* explicit arithmetic expression, solved locally
          /\ i = "MATH_REASONING"
          /\ SendLocalResponse(r, log, "local-math", i)
       \/ \E fast \in BOOLEAN :
            /\ conversation' = StoreUserMessage(conversation, userStored[r], r)
            /\ userStored' = U(userStored, r, TRUE)
            /\ events' = U(events, r, log)
            /\ intent' = U(intent, r, i)
            \* preferFast reads bypassHeavy, which is not in scope here:
            \* unless payload.fast short-circuits it, a ReferenceError leaves
            \* the handler.
            /\ pc' = U(pc, r, IF fast THEN "instant" ELSE "thrown")
            /\ UNCHANGED <<genVars, hasSources, wsOpen, backendCalls, cancelStage, responseCache>>

\* ------------------------------------------------------------------ actions
\* ws.on("message"): from the start of the handler to its first await.
Receive(r) ==
  /\ pc[r] = "idle"
  /\ wsOpen[r]
  /\ \/ \* invalid JSON, or no prompt
        /\ \E why \in {"Invalid JSON payload.", "Missing prompt."} :
             events' = U(events, r, Send(events[r], wsOpen[r], <<Ev("error", 0, "", why)>>))
        /\ pc' = U(pc, r, "ended")
        /\ UNCHANGED <<genVars, intent, hasSources, userStored, wsOpen,
                       conversation, backendCalls, cancelStage, responseCache>>
     \/ \* vague follow-up solved locally, tryLocalSolvers, trivial message
        SendLocalResponse(r, events[r], "tiny-sprinter", intent[r])
     \/ \* isSimpleQaFastPath: await callOllamaGenerate (llama3.2)
        /\ pc' = U(pc, r, "fast_qa")
        /\ backendCalls' = U(backendCalls, r,
                             Append(backendCalls[r], Call("fast_qa", userStored[r])))
        /\ UNCHANGED <<genVars, events, intent, hasSources, userStored, wsOpen,
                       conversation, cancelStage, responseCache>>
     \/ PostQa(r)
  /\ UNCHANGED nonWsVars

\* The simple-QA call returns: a usable answer is sent as a local response,
\* an uncertain answer or an exception falls through to the full pipeline.
FastQaReturn(r) ==
  /\ pc[r] = "fast_qa"
  /\ \/ SendLocalResponse(r, events[r], "core-fast", intent[r])
     \/ PostQa(r)
  /\ UNCHANGED nonWsVars

\* instantResponseEngine.getInstantResponse returned.
InstantReturn(r) ==
  /\ pc[r] = "instant"
  /\ \/ \* exact or semantic cache hit (never for a ranking intent)
        /\ intent[r] # "RANKING_QUERY"
        /\ events' = U(events, r, Send(events[r], wsOpen[r],
                        <<Ev("intent_classification", 0, "cache", intent[r]),
                          Ev("token", 0, "", ""),
                          Ev("done", 0, "cache", "")>>))
        /\ pc' = U(pc, r, "ended")
        /\ UNCHANGED <<genVars, intent, hasSources, userStored, wsOpen,
                       conversation, backendCalls, cancelStage, responseCache>>
     \/ \* miss, and a web search is due: await searchWeb
        /\ pc' = U(pc, r, "web")
        /\ UNCHANGED <<genVars, events, intent, hasSources, userStored, wsOpen,
                       conversation, backendCalls, cancelStage, responseCache>>
     \/ \* miss, no web search
        PostWeb(r, events[r])
  /\ UNCHANGED nonWsVars

\* searchWeb returned or threw: web_search_results either way.
WebReturn(r) ==
  /\ pc[r] = "web"
  /\ PostWeb(r, Send(events[r], wsOpen[r], <<Ev("web_search_results", 0, "", "")>>))
  /\ UNCHANGED nonWsVars

\* The tool of a tool command returned or threw.
ToolReturn(r) ==
  /\ pc[r] = "tool"
  /\ \E ok \in BOOLEAN :
       events' = U(events, r, Send(events[r], wsOpen[r],
                    IF ok THEN <<Ev("token", 0, "", ""), Ev("done", 0, "tool", "")>>
                          ELSE <<Ev("error", 0, "", "tool")>>))
  /\ pc' = U(pc, r, "ended")
  /\ UNCHANGED <<genVars, intent, hasSources, userStored, wsOpen,
                 conversation, backendCalls, cancelStage, responseCache>>
  /\ UNCHANGED nonWsVars

\* Context assembly of an auto request finished.
AssembleReturn(r) ==
  /\ pc[r] = "assemble"
  /\ \/ \* ranking intent without web sources: the stock refusal
        /\ intent[r] = "RANKING_QUERY"
        /\ SendLocalResponse(r, events[r], "ranking-no-sources", intent[r])
     \/ \E src \in BOOLEAN :
          /\ intent[r] = "RANKING_QUERY" => src
          /\ StartGeneration(r, events[r], src)
  /\ UNCHANGED nonWsVars

\* onToken: a token of the current attempt arrives.
Token(r) ==
  /\ pc[r] \in {"attempt1", "attempt2"}
  /\ ~aborted[r]
  /\ Len(responseText[r]) < MaxTokens
  /\ LET att == IF pc[r] = "attempt1" THEN 1 ELSE 2 IN
       /\ responseText' = U(responseText, r, Append(responseText[r], att))
       /\ events' = U(events, r, Send(events[r], wsOpen[r], <<Ev("token", att, "", "")>>))
  /\ UNCHANGED <<pc, usedModel, intent, hasSources, userStored, requestId,
                 aborted, closeHandler, wsOpen, phaseIdx, numPhases, activeRequests,
                 conversation, backendCalls, cancelStage, responseCache>>
  /\ UNCHANGED nonWsVars

\* streamOllamaGenerate resolves: the attempt succeeded.
AttemptDone(r) ==
  /\ pc[r] \in {"attempt1", "attempt2"}
  /\ ~aborted[r]
  /\ events' = U(events, r, Send(events[r], wsOpen[r],
                  IF pc[r] = "attempt2"
                  THEN <<Ev("model_retry_done", 0, usedModel[r], "")>> ELSE <<>>))
  /\ pc' = U(pc, r, "await_phases")
  /\ UNCHANGED <<responseText, usedModel, intent, hasSources, userStored,
                 requestId, aborted, closeHandler, wsOpen, phaseIdx, numPhases,
                 activeRequests, conversation, backendCalls, cancelStage, responseCache>>
  /\ UNCHANGED nonWsVars

\* The errors an attempt can reject with in the current state: an HTTP
\* error status (memory pressure or other) comes before any token, a
\* transport error at any time; an aborted controller leaves only the
\* AbortError, which the attempt deadline also raises for models that have one.
AttemptErrors(r) ==
  IF aborted[r] THEN {"abort"}
  ELSE (IF responseText[r] = <<>> THEN {"memory"} ELSE {})
       \cup {"other"}
       \cup (IF usedModel[r] # ReasoningModel THEN {"abort"} ELSE {})

\* No error delivered yet.
NoError == [att |-> 0, model |-> None, err |-> "none", how |-> "none"]

\* What is recorded for an error of AttemptErrors: a memory-pressure or
\* other error arrives as an HTTP error status or a failed transport; an
\* AbortError comes from the request's controller (cancel, closed socket)
\* when that is aborted and from the attempt's deadline otherwise.
Delivered(r, err) ==
  [att |-> IF pc[r] = "attempt1" THEN 1 ELSE 2,
   model |-> usedModel[r],
   err |-> err,
   how |-> IF err = "abort"
             THEN (IF aborted[r] THEN "controller" ELSE "deadline")
             ELSE "rejected"]

\* The fallback without "usedModel = fallbackModel".
FallbackKeepsModel(r, why) ==
  \E fb \in FallbackModels(intent[r]) :
    /\ events' = U(events, r, Send(events[r], wsOpen[r],
                    <<Ev("model_fallback", 0, fb, why),
                      Ev("model_retry_start", 0, fb, why)>>))
    /\ usedModel' = usedModel
    /\ responseText' = U(responseText, r, <<>>)
    /\ backendCalls' = U(backendCalls, r, Append(backendCalls[r], Call("attempt", userStored[r])))
    /\ pc' = U(pc, r, "attempt2")
    /\ UNCHANGED activeRequests

\* The model_fallback / model_retry_start pair and the second attempt.
Fallback(r, why) ==
  \E fb \in FallbackModels(intent[r]) :
    /\ events' = U(events, r, Send(events[r], wsOpen[r],
                    <<Ev("model_fallback", 0, fb, why),
                      Ev("model_retry_start", 0, fb, why)>>))
    /\ usedModel' = U(usedModel, r, fb)
    /\ responseText' = U(responseText, r, <<>>)
    /\ backendCalls' = U(backendCalls, r, Append(backendCalls[r], Call("attempt", userStored[r])))
    /\ pc' = U(pc, r, "attempt2")
    /\ UNCHANGED activeRequests

\* runGeneration rejects: the catch around the first attempt, then the
\* handler's catch.
AttemptFail(r) ==
  /\ pc[r] \in {"attempt1", "attempt2"}
  /\ \E err \in AttemptErrors(r) :
     /\ attemptError' = U(attemptError, r, Delivered(r, err))
     /\
       \/ /\ pc[r] = "attempt1" /\ usedModel[r] = ReasoningModel /\ err = "memory"
          /\ Fallback(r, "insufficient_memory")
       \/ /\ pc[r] = "attempt1" /\ usedModel[r] = ReasoningModel /\ err = "abort"
          /\ Fallback(r, "timeout")
       \/ /\ pc[r] = "attempt1" /\ usedModel[r] # ReasoningModel /\ err = "abort"
          /\ OuterCatchAbort(r, Send(events[r], wsOpen[r],
                                <<Ev("model_retry_failed", 0, usedModel[r], "timeout")>>))
          /\ UNCHANGED <<usedModel, responseText, backendCalls>>
       \/ /\ pc[r] = "attempt1"
          /\ (err = "other") \/ (err = "memory" /\ usedModel[r] # ReasoningModel)
          /\ OuterCatchError(r, events[r])
          /\ UNCHANGED <<usedModel, responseText, backendCalls>>
       \/ /\ pc[r] = "attempt2" /\ err = "abort"
          /\ OuterCatchAbort(r, events[r])
          /\ UNCHANGED <<usedModel, responseText, backendCalls>>
       \/ /\ pc[r] = "attempt2" /\ err # "abort"
          /\ OuterCatchError(r, events[r])
          /\ UNCHANGED <<usedModel, responseText, backendCalls>>
  /\ UNCHANGED <<intent, hasSources, userStored, requestId, aborted,
                 closeHandler, wsOpen, phaseIdx, numPhases, conversation,
                 cancelStage, responseCache>>
  /\ UNCHANGED nonWsErrVars

\* The backend sends an error as a line of its stream, {"error": "... out of
\* memory ..."}: the throw in streamOllamaGenerate is caught by the catch
\* of the JSON.parse around it, which makes the line itself the token text.
StreamErrorLine(r) ==
  /\ pc[r] \in {"attempt1", "attempt2"}
  /\ ~aborted[r]
  /\ Len(responseText[r]) < MaxTokens
  /\ LET att == IF pc[r] = "attempt1" THEN 1 ELSE 2 IN
       /\ responseText' = U(responseText, r, Append(responseText[r], att))
       /\ events' = U(events, r, Send(events[r], wsOpen[r], <<Ev("token", att, "", "")>>))
       /\ attemptError' = U(attemptError, r,
            [att |-> att, model |-> usedModel[r], err |-> "memory", how |-> "stream"])
  /\ UNCHANGED <<pc, usedModel, intent, hasSources, userStored, requestId,
                 aborted, closeHandler, wsOpen, phaseIdx, numPhases, activeRequests,
                 conversation, backendCalls, cancelStage, responseCache>>
  /\ UNCHANGED nonWsErrVars

\* The background phase emitter: after each 100 ms timer it sends the next
\* phase, and it ends after the timer that follows the last one.
PhaseTick(r) ==
  /\ phaseIdx[r] \in 1..numPhases[r]
  /\ phaseIdx' = U(phaseIdx, r, phaseIdx[r] + 1)
  /\ events' = U(events, r, Send(events[r], wsOpen[r],
                  IF phaseIdx[r] < numPhases[r]
                  THEN <<Ev("reasoning_phase", 0, "", "")>> ELSE <<>>))
  /\ UNCHANGED <<pc, responseText, usedModel, intent, hasSources, userStored,
                 requestId, aborted, closeHandler, wsOpen, numPhases, activeRequests,
                 conversation, backendCalls, cancelStage, responseCache>>
  /\ UNCHANGED nonWsVars

\* The text post-validation puts in place of a ranking answer: the stock
\* refusals (no sources; no reliable ranked list).  It holds neither a
\* numbered list nor a [n] citation.
RankingRefusal == <<4>>

\* Post-validation as it would be were the refusal to replace a ranking
\* answer as soon as it fails validateRankingResponse.
ValidatedWithoutRetry(r) ==
  CASE intent[r] = "MATH_REASONING" -> {responseText[r], <<3>>}
    [] intent[r] = "RANKING_QUERY" ->
         IF hasSources[r] THEN {responseText[r], <<3>>, RankingRefusal}
                          ELSE {RankingRefusal}
    [] OTHER -> {responseText[r]}

\* Answers post-validation can leave: the streamed text, or (att 3) a text
\* the validator obtains itself: the recomputed math answer, the strict
\* ranking re-generation.  A ranking answer with sources stays only if it
\* passes validateRankingResponse; one that fails is re-generated once (the
\* await of "postval"), and the refusal replaces it if that fails too.
Validated(r) ==
  CASE intent[r] = "MATH_REASONING" -> {responseText[r], <<3>>}
    [] intent[r] = "RANKING_QUERY" ->
         IF ~hasSources[r] THEN {RankingRefusal}
         ELSE IF pc[r] = "postval" THEN {<<3>>, RankingRefusal}
         ELSE {responseText[r]}
    [] OTHER -> {responseText[r]}

\* storeAssistantMessage, the done event and activeRequests.delete.
Finish(r, text, written) ==
  /\ conversation' = StoreAssistantMessage(conversation, text, r)
  /\ events' = U(events, r, Send(events[r], wsOpen[r], <<Ev("done", 0, usedModel[r], "")>>))
  /\ activeRequests' = U(activeRequests, requestId[r], None)
  /\ responseText' = U(responseText, r, text)
  /\ responseCache' = written
  /\ pc' = U(pc, r, "ended")

\* storeInCache (skipped for ranking), then the semantic-cache embedding.
CacheStage(r, text) ==
  \/ /\ intent[r] # "RANKING_QUERY"
     /\ \/ \* await embedText for the semantic cache
           /\ responseCache' = responseCache \cup {<<"exact", r>>}
           /\ responseText' = U(responseText, r, text)
           /\ pc' = U(pc, r, "cache_embed")
           /\ UNCHANGED <<events, activeRequests, conversation>>
        \/ Finish(r, text, responseCache \cup {<<"exact", r>>, <<"instant", r>>})
  \/ /\ intent[r] = "RANKING_QUERY"
     /\ Finish(r, text, responseCache)

\* await phasePromise resolves once the emitter has ended; post-validation
\* follows, with or without an await of its own.
AwaitPhases(r) ==
  /\ pc[r] = "await_phases"
  /\ phaseIdx[r] = numPhases[r] + 1
  /\ \/ \* verifyMathResponse awaits the python tool
        /\ intent[r] = "MATH_REASONING"
        /\ pc' = U(pc, r, "postval")
        /\ UNCHANGED <<events, activeRequests, conversation, responseText,
                       responseCache, backendCalls>>
     \/ \* the ranking answer fails validateRankingResponse: strict re-generation
        /\ intent[r] = "RANKING_QUERY" /\ hasSources[r]
        /\ pc' = U(pc, r, "postval")
        /\ backendCalls' = U(backendCalls, r,
                             Append(backendCalls[r], Call("strict_ranking", userStored[r])))
        /\ UNCHANGED <<events, activeRequests, conversation, responseText, responseCache>>
     \/ /\ \E text \in Validated(r) : CacheStage(r, text)
        /\ UNCHANGED backendCalls
  /\ UNCHANGED <<usedModel, intent, hasSources, userStored, requestId, aborted,
                 closeHandler, wsOpen, phaseIdx, numPhases, cancelStage>>
  /\ UNCHANGED nonWsVars

\* The awaited post-validation call returned.
PostValReturn(r) ==
  /\ pc[r] = "postval"
  /\ \E text \in Validated(r) : CacheStage(r, text)
  /\ UNCHANGED <<usedModel, intent, hasSources, userStored, requestId, aborted,
                 closeHandler, wsOpen, phaseIdx, numPhases, cancelStage, backendCalls>>
  /\ UNCHANGED nonWsVars

\* embedText for the semantic cache returned or threw.
CacheEmbedReturn(r) ==
  /\ pc[r] = "cache_embed"
  /\ Finish(r, responseText[r], responseCache \cup {<<"instant", r>>})
  /\ UNCHANGED <<usedModel, intent, hasSources, userStored, requestId, aborted,
                 closeHandler, wsOpen, phaseIdx, numPhases, cancelStage, backendCalls>>
  /\ UNCHANGED nonWsVars

\* POST /api/cancel for a registered id: abort its controller, delete the
\* handle, answer "cancelled".  (For an unregistered id the endpoint answers
\* "not_found" and changes nothing: CancelStatus.)
Cancel(id) ==
  /\ activeRequests[id] # None
  /\ LET o == activeRequests[id] IN
       /\ aborted' = U(aborted, o, TRUE)
       /\ cancelStage' = U(cancelStage, o, pc[o])
  /\ activeRequests' = U(activeRequests, id, None)
  /\ UNCHANGED <<pc, events, responseText, usedModel, intent, hasSources,
                 userStored, requestId, closeHandler, wsOpen, phaseIdx, numPhases,
                 conversation, backendCalls, responseCache>>
  /\ UNCHANGED nonWsVars

\* The socket of a request closes after the once("close") listener was
\* registered: the listener aborts the controller and deletes the id from the
\* registry.  (A socket that closes earlier only has its frames dropped.)
Close(r) ==
  /\ wsOpen[r]
  /\ closeHandler[r]
  /\ wsOpen' = U(wsOpen, r, FALSE)
  /\ aborted' = U(aborted, r, TRUE)
  /\ activeRequests' = U(activeRequests, requestId[r], None)
  /\ closeHandler' = U(closeHandler, r, FALSE)
  /\ UNCHANGED <<pc, events, responseText, usedModel, intent, hasSources,
                 userStored, requestId, phaseIdx, numPhases, conversation,
                 backendCalls, cancelStage, responseCache>>
  /\ UNCHANGED nonWsVars

\* ------------------------------------------------------- the memory store
LastN(s, n) == IF Len(s) <= n THEN s ELSE SubSeq(s, Len(s) - n + 1, Len(s))

FirstN(s, n) == IF Len(s) <= n THEN s ELSE SubSeq(s, 1, n)

Range(s) == {s[i] : i \in 1..Len(s)}

RemoveAt(s, k) == [i \in 1..(Len(s) - 1) |-> IF i < k THEN s[i] ELSE s[i + 1]]

IdList(n) == [i \in 1..n |-> i]

\* slice(0, MAX_ENTRIES) in place of slice(-MAX_ENTRIES).
TrimmedHead(entries) == FirstN(entries, MAX_ENTRIES)

\* saveMemory: entries.slice(-MAX_ENTRIES).
Trimmed(entries) == LastN(entries, MAX_ENTRIES)

\* saveMemory(entries) up to its first await (ensureMemoryFile): the call
\* holds a reference to the array it was given.
SaveMemory(arr) ==
  [arr |-> arr, stage |-> "ensure", list |-> <<>>, doc |-> <<>>, purge |-> {}]

\* pruneExpiredEntries: entries.filter((entry) => !isExpired(entry)).
PruneExpiredEntries(entries) == SelectSeq(entries, LAMBDA e : e \notin expired)

\* memory.json as the server finds it at startup: loadMemory.
InitSizes == {MAX_ENTRIES - 2, MAX_ENTRIES}

MemInit ==
  \E n \in InitSizes :
    /\ memoryFile = IdList(n)
    /\ arrays = <<IdList(n)>>
    /\ memoryEntries = 1
    /\ saves = <<>>
    /\ nextId = n + 1
    /\ lastSaved = IdList(n)
    /\ expired = {}
    /\ purges = 0
    /\ purged = {}
    /\ queried = [n |-> 0, leak |-> {}]

\* POST /api/memory/store (and summarizeConversationIfNeeded): push the new
\* entry onto memoryEntries, then saveMemory(memoryEntries).
MemoryStore ==
  /\ nextId <= MAX_ENTRIES + MaxOver
  /\ Len(saves) < MaxInFlight
  /\ arrays' = [arrays EXCEPT ![memoryEntries] = Append(@, nextId)]
  /\ nextId' = nextId + 1
  /\ saves' = Append(saves, SaveMemory(memoryEntries))
  /\ UNCHANGED <<memoryEntries, memoryFile, lastSaved, expired, purges, purged, queried>>
  /\ UNCHANGED nonMemVars

\* DELETE /api/memory/entries/:id for a stored id (the oldest or the newest
\* entry): memoryEntries is rebound to the filtered copy, which is saved.
MemoryDelete ==
  /\ Len(arrays) <= MaxDeletes + purges
  /\ Len(saves) < MaxInFlight
  /\ arrays[memoryEntries] # <<>>
  /\ LET cur == arrays[memoryEntries] IN
     \E id \in {cur[1], cur[Len(cur)]} :
       /\ arrays' = Append(arrays, SelectSeq(cur, LAMBDA e : e # id))
       /\ memoryEntries' = Len(arrays) + 1
       /\ saves' = Append(saves, SaveMemory(Len(arrays) + 1))
  /\ UNCHANGED <<memoryFile, nextId, lastSaved, expired, purges, purged, queried>>
  /\ UNCHANGED nonMemVars

\* Time passes an entry's expiresAt (the oldest or the newest entry held).
MemoryExpire ==
  /\ Cardinality(expired) < MaxExpired
  /\ arrays[memoryEntries] # <<>>
  /\ LET cur == arrays[memoryEntries] IN
     \E id \in {cur[1], cur[Len(cur)]} \ expired :
       expired' = expired \cup {id}
  /\ UNCHANGED <<memoryEntries, arrays, memoryFile, saves, nextId, lastSaved,
                 purges, purged, queried>>
  /\ UNCHANGED nonMemVars

\* POST /api/memory/entries/purge: memoryEntries is rebound to the pruned
\* copy; when entries were removed it is saved before the handler answers.
MemoryPurge ==
  /\ purges < MaxPurges
  /\ Len(saves) < MaxInFlight
  /\ purges' = purges + 1
  /\ LET cur == arrays[memoryEntries]
         kept == PruneExpiredEntries(cur)
     IN  /\ arrays' = Append(arrays, kept)
         /\ memoryEntries' = Len(arrays) + 1
         /\ IF Len(kept) # Len(cur)
            THEN saves' = Append(saves, [SaveMemory(Len(arrays) + 1) EXCEPT
                                          !.purge = Range(cur) \ Range(kept)])
            ELSE saves' = saves
  /\ UNCHANGED <<memoryFile, nextId, lastSaved, expired, purged, queried>>
  /\ UNCHANGED nonMemVars

\* A memory query (queryMemoryEntries during context assembly, GET
\* /api/memory/entries): both filter with isExpired before they answer.
MemoryQuery ==
  /\ expired # {}
  /\ LET result == PruneExpiredEntries(arrays[memoryEntries]) IN
       queried' = [n |-> Len(result), leak |-> Range(result) \cap expired]
  /\ UNCHANGED <<memoryEntries, arrays, memoryFile, saves, nextId, lastSaved,
                 expired, purges, purged>>
  /\ UNCHANGED nonMemVars

\* saveMemory after ensureMemoryFile: slice the array as it is now and hand
\* the document to fs.writeFile.
SaveSlice(k) ==
  /\ k \in 1..Len(saves)
  /\ saves[k].stage = "ensure"
  /\ saves' = [saves EXCEPT ![k] = [arr |-> @.arr, stage |-> "write",
                                    list |-> arrays[@.arr],
                                    doc |-> Trimmed(arrays[@.arr]),
                                    purge |-> @.purge]]
  /\ UNCHANGED <<memoryEntries, arrays, memoryFile, nextId, lastSaved,
                 expired, purges, purged, queried>>
  /\ UNCHANGED nonMemVars

\* fs.writeFile of a saveMemory call lands and the call completes.
SaveWrite(k) ==
  /\ k \in 1..Len(saves)
  /\ saves[k].stage = "write"
  /\ memoryFile' = saves[k].doc
  /\ lastSaved' = saves[k].list
  /\ saves' = RemoveAt(saves, k)
  /\ purged' = purged \cup saves[k].purge
  /\ UNCHANGED <<memoryEntries, arrays, nextId, expired, purges, queried>>
  /\ UNCHANGED nonMemVars

\* ----------------------------------------------------- the response cache
\* ensureCacheLoaded up to its first await: the flag is set before the file
\* is read, so callers go on while the load is in flight.
EnsureCacheLoaded ==
  /\ cacheLoaded' = TRUE
  /\ cacheLoad' = IF cacheLoaded THEN cacheLoad ELSE "reading"

\* Map.set: a key the map holds keeps its place, a new key goes last.
MapSet(m, k) == IF k \in Range(m) THEN m ELSE Append(m, k)

\* cache.set of every item of a document (its keys are distinct: it was
\* written from a Map).
MapSetAll(m, ks) == m \o SelectSeq(ks, LAMBDA k : k \notin Range(m))

\* setCachedResponse: "if (cache.size >= MAX_CACHE_SIZE)" delete the first key.
EvictOldest(m) == IF Len(m) >= MAX_CACHE_SIZE THEN Tail(m) ELSE m

\* response_cache.json as a process finds it at startup: written by an
\* earlier run whose cache was full or one short of full.
CacheInit ==
  \E n \in {MAX_CACHE_SIZE - 1, MAX_CACHE_SIZE} :
    /\ cache = <<>>
    /\ cacheLoaded = FALSE
    /\ cacheLoad = "idle"
    /\ cacheFile = IdList(n)
    /\ cacheFileWhole = TRUE
    /\ saveTimer = FALSE
    /\ cacheSaves = <<>>
    /\ nextKey = n + 1
    /\ cacheExpiries = 0
    /\ cacheRead = "none"

\* setCachedResponse(cacheKey, ...) for a new key or the newest key held,
\* scheduleSave included.
SetCachedResponse ==
  /\ \E k \in {nextKey} \cup (IF cache = <<>> THEN {} ELSE {cache[Len(cache)]}) :
       /\ k = nextKey => nextKey <= MAX_CACHE_SIZE + MaxCacheSets
       /\ nextKey' = IF k = nextKey THEN nextKey + 1 ELSE nextKey
       /\ cache' = MapSet(EvictOldest(cache), k)
  /\ EnsureCacheLoaded
  /\ saveTimer' = TRUE
  /\ UNCHANGED <<cacheFile, cacheFileWhole, cacheSaves, cacheRead,
                 cacheExpiries>>
  /\ UNCHANGED nonCacheVars

\* getCachedResponse(cacheKey): starts the load when none has started; an
\* entry past its TTL is deleted.
GetCachedResponse ==
  /\ EnsureCacheLoaded
  /\ \/ UNCHANGED <<cache, cacheExpiries>>
     \/ /\ cache # <<>>
        /\ cacheExpiries < MaxCacheExpiries
        /\ cache' = Tail(cache)
        /\ cacheExpiries' = cacheExpiries + 1
  /\ UNCHANGED <<cacheFile, cacheFileWhole, saveTimer, cacheSaves, nextKey, cacheRead>>
  /\ UNCHANGED nonCacheVars

\* ensureCacheLoaded after readFile: JSON.parse and cache.set of every item;
\* a document that does not parse is ignored by the catch.
CacheLoadRead ==
  /\ cacheLoad = "reading"
  /\ cacheLoad' = "done"
  /\ IF cacheFileWhole
     THEN /\ cache' = MapSetAll(cache, cacheFile)
          /\ cacheRead' = "whole"
     ELSE /\ cache' = cache
          /\ cacheRead' = "torn"
  /\ UNCHANGED <<cacheLoaded, cacheFile, cacheFileWhole, saveTimer, cacheSaves, nextKey,
                 cacheExpiries>>
  /\ UNCHANGED nonCacheVars

\* scheduleSave's timer fires: saveTimer = null, then await fs.mkdir.
SaveTimerFire ==
  /\ saveTimer
  /\ Len(cacheSaves) < MaxInFlight
  /\ saveTimer' = FALSE
  /\ cacheSaves' = Append(cacheSaves, [stage |-> "mkdir", items |-> <<>>])
  /\ UNCHANGED <<cache, cacheLoaded, cacheLoad, cacheFile, cacheFileWhole, nextKey, cacheRead,
                 cacheExpiries>>
  /\ UNCHANGED nonCacheVars

\* The timer callback after mkdir: Array.from(cache.entries()) and the call
\* of fs.writeFile.
CacheSaveItems(k) ==
  /\ k \in 1..Len(cacheSaves)
  /\ cacheSaves[k].stage = "mkdir"
  /\ cacheSaves' = [cacheSaves EXCEPT ![k] = [stage |-> "open", items |-> cache]]
  /\ UNCHANGED <<cache, cacheLoaded, cacheLoad, cacheFile, cacheFileWhole,
                 saveTimer, nextKey, cacheRead,
                 cacheExpiries>>
  /\ UNCHANGED nonCacheVars

\* fs.writeFile opens response_cache.json with flag "w": the file is
\* truncated before the first byte of the new document is written.
CacheWriteOpen(k) ==
  /\ k \in 1..Len(cacheSaves)
  /\ cacheSaves[k].stage = "open"
  /\ cacheSaves' = [cacheSaves EXCEPT ![k].stage = "writing"]
  /\ cacheFile' = <<>>
  /\ cacheFileWhole' = FALSE
  /\ UNCHANGED <<cache, cacheLoaded, cacheLoad, saveTimer, nextKey, cacheRead,
                 cacheExpiries>>
  /\ UNCHANGED nonCacheVars

\* fs.writeFile has written its last byte. With another writeFile on the
\* same path under way the bytes may or may not form one document.
CacheWriteDone(k) ==
  /\ k \in 1..Len(cacheSaves)
  /\ cacheSaves[k].stage = "writing"
  /\ cacheSaves' = RemoveAt(cacheSaves, k)
  /\ cacheFile' = cacheSaves[k].items
  /\ \E whole \in BOOLEAN :
       /\ (\A j \in 1..Len(cacheSaves) : j # k => cacheSaves[j].stage # "writing") => whole
       /\ cacheFileWhole' = whole
  /\ UNCHANGED <<cache, cacheLoaded, cacheLoad, saveTimer, nextKey, cacheRead,
                 cacheExpiries>>
  /\ UNCHANGED nonCacheVars

CacheIdle ==
  /\ cache = <<>>
  /\ cacheLoaded = FALSE
  /\ cacheLoad = "idle"
  /\ cacheFile = <<>>
  /\ cacheFileWhole = TRUE
  /\ saveTimer = FALSE
  /\ cacheSaves = <<>>
  /\ nextKey = 1
  /\ cacheExpiries = 0
  /\ cacheRead = "none"

\* ------------------------------------------------------- POST /api/auto
\* The prompts a request may carry; each predicate of the server is
\* tabulated over them.
LongPrompt == "please describe the differences between processes and threads in detail"

Prompts == {"", "hello", "thanks", "tell me a joke", "28 - 4 + 2",
            "top 10 programming languages", "/python print(1)",
            "explain how tcp works", LongPrompt}

IsGreeting(p) == p = "hello"

IsTrivialMessage(p) == p = "thanks"

IsInstantConversationPrompt(p) == p \in {"thanks", "tell me a joke"}

\* tryLocalSolvers(p).handled
TryLocalSolvers(p) == p = "28 - 4 + 2"

IsLeaderboardPrompt(p) == p = "top 10 programming languages"

\* parseToolCommand(p) || detectImplicitToolCommand(p)
ParseToolCommand(p) == p = "/python print(1)"

ShouldRewritePrompt(p) == p = LongPrompt

\* Texts: what a backend LM call returns (n tells two outputs apart, full:
\* it has a Result section and at least minLength characters) and the
\* texts the server builds itself.
LmText(n, full) == [kind |-> "lm", n |-> n, full |-> full]

LocalText(kind) == [kind |-> kind, n |-> 0, full |-> TRUE]

Outputs == {LmText(n, full) : n \in 1..MaxOutputs, full \in BOOLEAN}

NeedsQc(text) == ~text.full

\* buildCacheKey: the model and the wrapped prompt are functions of the
\* request's prompt and of the rewritten prompt.
BuildCacheKey(p, rw) == <<p, rw>>

CacheIndex(c, key) == {i \in 1..Len(c) : c[i].key = key}

\* storeInCache: the oldest entry goes when the Map is full; set() keeps
\* the position of a key already present.
StoreInCache(c, key, value) ==
  LET kept == IF Len(c) >= MAX_CACHE_ENTRIES THEN Tail(c) ELSE c
      entry == [key |-> key, value |-> value]
  IN IF CacheIndex(kept, key) # {}
       THEN [i \in 1..Len(kept) |-> IF kept[i].key = key THEN entry ELSE kept[i]]
       ELSE Append(kept, entry)

\* One step of the handler: every variable of the handler is assigned.
AutoStep(at, p, w, rw, text, calls, reps, mc) ==
  /\ autoPc' = at
  /\ autoPrompt' = p
  /\ autoWeb' = w
  /\ rewrittenPrompt' = rw
  /\ autoText' = text
  /\ autoCalls' = calls
  /\ replies' = reps
  /\ modelCache' = mc
  /\ UNCHANGED <<webConfigEnabled, qualityEnabled, toolsEnabled>>

\* The outcome of a request: status 0 stands for no response at all.
Reply(p, w, status, model, text, calls) ==
  [prompt |-> p, autoWeb |-> w, status |-> status, model |-> model,
   text |-> text, calls |-> calls]

\* res.json / res.status(..).json and return.
AutoReply(p, w, rw, status, model, text, calls, mc) ==
  AutoStep("idle", p, w, rw, text, calls,
           Append(replies, Reply(p, w, status, model, text, calls)), mc)

\* From the end of the rewrite to the next await: the 400 answer, the
\* greeting, tool commands.
PostRewrite(p, w, rw, calls) ==
  IF p = ""
    THEN AutoReply(p, w, rw, 400, None, LocalText("error"), calls, modelCache)
  ELSE IF IsGreeting(p)
    THEN AutoReply(p, w, rw, 200, "local", LocalText("greeting"), calls, modelCache)
  ELSE IF ParseToolCommand(p)
    THEN IF toolsEnabled
           THEN AutoStep("tool", p, w, rw, autoText, calls, replies, modelCache)
           ELSE AutoReply(p, w, rw, 403, None, LocalText("error"), calls, modelCache)
  ELSE \* await loadFileContexts
       AutoStep("files", p, w, rw, autoText, calls, replies, modelCache)

\* app.post("/api/auto"): from the start of the handler to its first await.
AutoReceive ==
  /\ autoPc = "idle"
  /\ Len(replies) < MaxRequests
  /\ \E p \in Prompts, w \in BOOLEAN :
       IF ShouldRewritePrompt(p)
         THEN AutoStep("rewrite", p, w, 0, autoText, <<"rewrite">>, replies, modelCache)
         ELSE PostRewrite(p, w, 0, <<>>)
  /\ UNCHANGED nonHttpVars

\* rewritePrompt returned a text, returned nothing or threw.
AutoRewriteReturn ==
  /\ autoPc = "rewrite"
  /\ \E rw \in 0..MaxOutputs : PostRewrite(autoPrompt, autoWeb, rw, autoCalls)
  /\ UNCHANGED nonHttpVars

\* The tool of a tool command returned or threw.
AutoToolReturn ==
  /\ autoPc = "tool"
  /\ \/ AutoReply(autoPrompt, autoWeb, rewrittenPrompt, 200, "tool",
                   LocalText("tool"), autoCalls, modelCache)
     \/ AutoReply(autoPrompt, autoWeb, rewrittenPrompt, 500, None,
                   LocalText("error"), autoCalls, modelCache)
  /\ UNCHANGED nonHttpVars

\* handleAiRequest after generateResponseWithCache: quality control of the
\* draft, or the answer.
AfterDraft(text, calls, mc) ==
  IF qualityEnabled /\ NeedsQc(text)
    THEN AutoStep("qc", autoPrompt, autoWeb, rewrittenPrompt, text,
                  Append(calls, "qc"), replies, mc)
    ELSE AutoReply(autoPrompt, autoWeb, rewrittenPrompt, 200, "route", text, calls, mc)

\* loadFileContexts returned.  autoWebEnabled is computed next: its third
\* operand reads forceNoWeb, which only the WebSocket handler declares, so
\* with web enabled and autoWeb set or a leaderboard prompt the handler
\* leaves with a ReferenceError: no answer, or the framework's 500.
\* Otherwise the prompts of this model bypass the heavy context work and
\* handleAiRequest looks the wrapped prompt up in the cache.
AutoFilesReturn ==
  /\ autoPc = "files"
  /\ LET key == BuildCacheKey(autoPrompt, rewrittenPrompt)
         hit == CacheIndex(modelCache, key)
     IN
     IF webConfigEnabled /\ (autoWeb \/ IsLeaderboardPrompt(autoPrompt))
       THEN \E status \in {0, 500} :
              AutoReply(autoPrompt, autoWeb, rewrittenPrompt, status, None,
                        LocalText("error"), autoCalls, modelCache)
     ELSE IF hit # {}
       THEN AfterDraft(modelCache[CHOOSE i \in hit : TRUE].value, autoCalls, modelCache)
     ELSE AutoStep("generate", autoPrompt, autoWeb, rewrittenPrompt, autoText,
                   Append(autoCalls, "generate"), replies, modelCache)
  /\ UNCHANGED nonHttpVars

\* callOllamaGenerate returned (the draft is stored in the cache) or threw.
AutoGenerateReturn ==
  /\ autoPc = "generate"
  /\ \/ \E o \in Outputs :
          AfterDraft(o, autoCalls,
                     StoreInCache(modelCache,
                                  BuildCacheKey(autoPrompt, rewrittenPrompt), o))
     \/ AutoReply(autoPrompt, autoWeb, rewrittenPrompt, 500, None,
                   LocalText("error"), autoCalls, modelCache)
  /\ UNCHANGED nonHttpVars

\* runQc returned a text (it replaces the draft), returned nothing, or threw.
AutoQcReturn ==
  /\ autoPc = "qc"
  /\ \/ \E q \in Outputs :
          AutoReply(autoPrompt, autoWeb, rewrittenPrompt, 200, "route", q,
                    autoCalls, modelCache)
     \/ AutoReply(autoPrompt, autoWeb, rewrittenPrompt, 200, "route", autoText,
                   autoCalls, modelCache)
     \/ AutoReply(autoPrompt, autoWeb, rewrittenPrompt, 500, None,
                   LocalText("error"), autoCalls, modelCache)
  /\ UNCHANGED nonHttpVars

\* No HTTP request, default configuration.
HttpIdle ==
  /\ autoPc = "idle"
  /\ autoPrompt = ""
  /\ autoWeb = FALSE
  /\ rewrittenPrompt = 0
  /\ autoText = LocalText("none")
  /\ autoCalls = <<>>
  /\ replies = <<>>
  /\ modelCache = <<>>
  /\ webConfigEnabled = TRUE
  /\ qualityEnabled = FALSE
  /\ toolsEnabled = TRUE

\* No HTTP request yet, any configuration.
HttpInit ==
  /\ autoPc = "idle"
  /\ autoPrompt = ""
  /\ autoWeb = FALSE
  /\ rewrittenPrompt = 0
  /\ autoText = LocalText("none")
  /\ autoCalls = <<>>
  /\ replies = <<>>
  /\ modelCache = <<>>
  /\ webConfigEnabled \in BOOLEAN
  /\ qualityEnabled \in BOOLEAN
  /\ toolsEnabled \in BOOLEAN

\* ------------------------------------------------- the shape of an answer
\* An answer is modelled by the sequence of its section headings.
MaxSections == 2

Headings == {"Thinking", "Result"}

\* The texts a backend call may return.
Shapes == UNION {[1..n -> Headings] : n \in 0..MaxSections}

\* "Thinking\n- (omitted by request)\n\nResult\n- ..."
LocalShape == <<"Thinking", "Result">>

\* The "only N items" notice is put in front of the answer as a text with
\* a Thinking and a Result section of its own.
CountNotice(text) == LocalShape \o text

\* countRankingItems(text) > 0 && < 10 on a "top 10" prompt.
NoticeDue == BOOLEAN

\* Post-validation of a ranking answer: draft is the streamed text, valid
\* and retryValid tell whether it and the strict re-generation (retry)
\* pass validateRankingResponse, short whether the notice is due.
RankingPostValidation(draft, sources, valid, retry, retryValid, short) ==
  IF ~sources THEN LocalShape
  ELSE IF valid THEN (IF short THEN CountNotice(draft) ELSE draft)
  ELSE IF retryValid THEN (IF short THEN CountNotice(retry) ELSE retry)
  ELSE LocalShape

\* A local solver, greeting or instant-conversation answer.
AnswerLocal ==
  /\ ansPath' = "local"
  /\ ansFinal' = LocalShape
  /\ UNCHANGED <<ansDraft, ansCached>>
  /\ UNCHANGED nonAnsVars

\* The simple-QA fast path: the backend's text is sent as it came.
AnswerCoreFast ==
  /\ \E text \in Shapes :
       /\ ansDraft' = text
       /\ ansFinal' = text
  /\ ansPath' = "core-fast"
  /\ UNCHANGED ansCached
  /\ UNCHANGED nonAnsVars

\* A generated answer of a non-ranking intent: post-validation keeps the
\* text or puts a locally built one in its place; the result is cached.
AnswerModel ==
  /\ \E text \in Shapes, rebuilt \in BOOLEAN :
       /\ ansDraft' = text
       /\ ansFinal' = IF rebuilt THEN LocalShape ELSE text
       /\ ansCached' = IF rebuilt THEN LocalShape ELSE text
  /\ ansPath' = "model"
  /\ UNCHANGED nonAnsVars

\* A generated answer of a ranking intent: never cached.
AnswerRanking ==
  /\ \E text \in Shapes, sources \in BOOLEAN, valid \in BOOLEAN, short \in NoticeDue :
       \E retry \in (IF sources /\ ~valid THEN Shapes ELSE {text}),
          retryValid \in (IF sources /\ ~valid THEN BOOLEAN ELSE {FALSE}) :
         /\ ansDraft' = text
         /\ ansFinal' = RankingPostValidation(text, sources, valid, retry, retryValid, short)
  /\ ansPath' = "ranking"
  /\ UNCHANGED ansCached
  /\ UNCHANGED nonAnsVars

\* A cache hit: the cached text is sent as it is.
AnswerCached ==
  /\ ansCached # <<"none">>
  /\ ansPath' = "cache"
  /\ ansFinal' = ansCached
  /\ UNCHANGED <<ansDraft, ansCached>>
  /\ UNCHANGED nonAnsVars

AnsIdle ==
  /\ ansPath = "none"
  /\ ansDraft = <<>>
  /\ ansFinal = <<>>
  /\ ansCached = <<"none">>

\* ------------------------------------------------------------ tool chains
MaxCalls == 3

\* What running a tool does: it returns its output, it throws, or (no tool
\* of that name) it is unknown.
ToolKinds == {"returns", "throws", "unknown"}

CallLists == UNION {[1..n -> ToolKinds] : n \in 0..MaxCalls}

\* The handler leaves the loop over toolCalls: the final LM call is made
\* with the outputs gathered.
ChainAdvance(calls, outs) ==
  /\ outputs' = outs
  /\ IF Len(outs) = Len(calls)
       THEN chainPc' = "lm" /\ chainSeen' = outs
       ELSE chainPc' = "tool" /\ UNCHANGED chainSeen

\* The catch of the handler: res.status(500), the loop is left.
ChainCatch ==
  /\ chainPc' = "done"
  /\ chainStatus' = 500
  /\ UNCHANGED <<toolCalls, outputs, chainSeen>>

\* app.post("/api/tools/chain"): from the start to the first await.
ChainReceive ==
  /\ chainPc = "idle"
  /\ \/ \* no prompt, or toolCalls is not an array
        /\ chainPc' = "done"
        /\ chainStatus' = 400
        /\ UNCHANGED <<toolCalls, outputs, chainSeen>>
     \/ /\ ~toolsEnabled
        /\ chainPc' = "done"
        /\ chainStatus' = 403
        /\ UNCHANGED <<toolCalls, outputs, chainSeen>>
     \/ /\ toolsEnabled
        /\ \E calls \in CallLists :
             /\ toolCalls' = calls
             /\ ChainAdvance(calls, <<>>)
        /\ UNCHANGED chainStatus
  /\ UNCHANGED <<execPc, execTools, execIdx, results, timeline>>
  /\ UNCHANGED nonChainVars

\* One iteration of the loop: the tool of the next call returned or threw.
ChainTool ==
  /\ chainPc = "tool"
  /\ LET kind == toolCalls[Len(outputs) + 1] IN
       IF kind = "throws"
         THEN ChainCatch
         ELSE /\ ChainAdvance(toolCalls, Append(outputs,
                                IF kind = "unknown" THEN "Unknown tool" ELSE "output"))
              /\ UNCHANGED <<toolCalls, chainStatus>>
  /\ UNCHANGED <<execPc, execTools, execIdx, results, timeline>>
  /\ UNCHANGED nonChainVars

\* The final LM call returned or threw.
ChainLmReturn ==
  /\ chainPc = "lm"
  /\ chainPc' = "done"
  /\ \E status \in {200, 500} : chainStatus' = status
  /\ UNCHANGED <<toolCalls, outputs, chainSeen>>
  /\ UNCHANGED <<execPc, execTools, execIdx, results, timeline>>
  /\ UNCHANGED nonChainVars

\* executeChain(tools, input) is called.
ExecStart ==
  /\ execPc = "idle"
  /\ \E tools \in CallLists :
       /\ execTools' = tools
       /\ execPc' = IF Len(tools) = 0 THEN "done" ELSE "tool"
  /\ UNCHANGED <<execIdx, results, timeline>>
  /\ UNCHANGED <<chainPc, toolCalls, outputs, chainSeen, chainStatus>>
  /\ UNCHANGED nonChainVars

\* executeTool for the next tool: an unknown tool throws out of
\* executeChain; a throwing tool gives success false, which goes to the
\* timeline and the console only.
ExecTool ==
  /\ execPc = "tool"
  /\ LET kind == execTools[execIdx] IN
       IF kind = "unknown"
         THEN /\ execPc' = "thrown"
              /\ UNCHANGED <<execIdx, results, timeline>>
         ELSE /\ timeline' = Append(timeline, kind = "returns")
              /\ results' = IF kind = "returns"
                               THEN results \cup {<<execIdx, "output">>}
                               ELSE results
              /\ execIdx' = execIdx + 1
              /\ execPc' = IF execIdx = Len(execTools) THEN "done" ELSE "tool"
  /\ UNCHANGED execTools
  /\ UNCHANGED <<chainPc, toolCalls, outputs, chainSeen, chainStatus>>
  /\ UNCHANGED nonChainVars

ChainIdle ==
  /\ chainPc = "idle"
  /\ toolCalls = <<>>
  /\ outputs = <<>>
  /\ chainSeen = <<"none">>
  /\ chainStatus = 0
  /\ execPc = "idle"
  /\ execTools = <<>>
  /\ execIdx = 1
  /\ results = {}
  /\ timeline = <<>>

\* ------------------------------------------------ conversation buffers
\* Each message carries the number of its append, so that the order of
\* arrival can be read off the buffer.
RECURSIVE ConvTotal(_)
ConvTotal(S) ==
  IF S = {} THEN 0
  ELSE LET u == CHOOSE x \in S : TRUE IN convAdds[u] + ConvTotal(S \ {u})

ConvAppend(u, role) ==
  /\ ConvTotal(ConvUsers) < MaxAdds
  /\ conversations' = [conversations EXCEPT
                         ![u] = AddMessage(@, role, convAdds[u] + 1)]
  /\ convAdds' = [convAdds EXCEPT ![u] = @ + 1]

\* addMessage(userId, role, content, metadata) called by the server with a
\* user's or the assistant's message.
ConvAddMessage(u, role) ==
  /\ role \in {"user", "assistant"}
  /\ ConvAppend(u, role)
  /\ UNCHANGED <<convCodes, convClears, nonConvVars>>

\* rememberCode: creates the buffer when absent, then appends a system
\* message through addMessage.
ConvRememberCode(u) ==
  /\ convCodes < MaxCodes
  /\ convCodes' = convCodes + 1
  /\ ConvAppend(u, "system")
  /\ UNCHANGED <<convClears, nonConvVars>>

\* clearConversation(userId), and clearOldConversations for a user whose last
\* message is too old: the user's buffer is deleted.
ConvClearConversation(u) ==
  /\ convClears < MaxClears
  /\ conversations[u] # <<>>
  /\ convClears' = convClears + 1
  /\ conversations' = [conversations EXCEPT ![u] = <<>>]
  /\ UNCHANGED <<convAdds, convCodes, nonConvVars>>

\* clearAll: every buffer is deleted.
ConvClearAll ==
  /\ convClears < MaxClears
  /\ \E u \in ConvUsers : conversations[u] # <<>>
  /\ convClears' = convClears + 1
  /\ conversations' = [u \in ConvUsers |-> <<>>]
  /\ UNCHANGED <<convAdds, convCodes, nonConvVars>>

ConvIdle ==
  /\ conversations = [u \in ConvUsers |-> <<>>]
  /\ convAdds = [u \in ConvUsers |-> 0]
  /\ convCodes = 0
  /\ convClears = 0

NextConv ==
  \/ \E u \in ConvUsers : ConvAddMessage(u, IF convAdds[u] % 2 = 0 THEN "user" ELSE "assistant")
  \/ \E u \in ConvUsers : ConvRememberCode(u)
  \/ \E u \in ConvUsers : ConvClearConversation(u)
  \/ ConvClearAll

\* ------------------------------------------------------- report jobs
\* POST /api/reports/generate with reportId, prompt and userId present:
\* answers "queued" and calls generateReportAsync, which sets the
\* activeReports entry and runs up to its await of streamOllamaGenerate.
ReportGenerate(rid) ==
  /\ Len(reportJobs) < MaxJobs
  /\ activeReports' = activeReports \cup {rid}
  /\ reportJobs' = Append(reportJobs, [reportId |-> rid, pc |-> "generating"])
  /\ UNCHANGED <<reportHistory, nonRepVars>>

\* streamOllamaGenerate resolved: the report is formatted and pushed to the
\* history; computing the duration reads activeReports.get(reportId).startTime,
\* a TypeError when the entry is gone, which the catch turns into a failure.
ReportStreamReturn(j) ==
  /\ reportJobs[j].pc = "generating"
  /\ reportHistory' = Append(reportHistory, reportJobs[j].reportId)
  /\ reportJobs' = [reportJobs EXCEPT ![j].pc =
                      IF reportJobs[j].reportId \in activeReports
                        THEN "complete" ELSE "failed"]
  /\ activeReports' = activeReports \ {reportJobs[j].reportId}
  /\ UNCHANGED nonRepVars

\* streamOllamaGenerate rejected: the catch reports the failure and deletes
\* the entry.
ReportStreamThrow(j) ==
  /\ reportJobs[j].pc = "generating"
  /\ reportJobs' = [reportJobs EXCEPT ![j].pc = "failed"]
  /\ activeReports' = activeReports \ {reportJobs[j].reportId}
  /\ UNCHANGED <<reportHistory, nonRepVars>>

RepIdle ==
  /\ activeReports = {}
  /\ reportJobs = <<>>
  /\ reportHistory = <<>>

NextReport ==
  \/ \E rid \in ReportIds : ReportGenerate(rid)
  \/ \E j \in 1..Len(reportJobs) : ReportStreamReturn(j)
  \/ \E j \in 1..Len(reportJobs) : ReportStreamThrow(j)

\* ------------------------------------------------------ memory recall
\* A stored entry, as far as recall looks at it: meta.userId and meta.teamId
\* (None: absent), and whether it is unexpired and scores at least MIN_SCORE
\* against the prompt of the recall.
RecallIds == {None, "u1", "u2"}

RecallTeams == {None, "t1"}

RecallEntry == [userId : RecallIds, teamId : RecallTeams, scores : BOOLEAN]

\* filterEntriesForUser(entries, userId, teamMode, teamId).
FilterEntriesForUser(entries, userId, teamMode, teamId) ==
  IF teamMode
    THEN IF teamId # None
           THEN {e \in entries : e.teamId = teamId}
           ELSE entries
    ELSE IF userId = None
           THEN entries
           ELSE {e \in entries : e.userId = userId}

\* queryMemoryEntries(entries, query, limit, options) for a query with
\* keywords: the possible results. Scope filter, expiry and score filter,
\* then the `limit` best ones (any `limit` of them: scores are not modelled
\* beyond the threshold).
QueryMemoryEntries(entries, limit, options) ==
  LET scoped == {e \in FilterEntriesForUser(entries, options.userId,
                                            options.teamMode, options.teamId) :
                   e.scores}
  IN  IF Cardinality(scoped) <= limit
        THEN {scoped}
        ELSE {S \in SUBSET scoped : Cardinality(S) = limit}

\* buildMemoryEntry with the request's meta, pushed onto memoryEntries.
RecallStore(e) ==
  /\ Cardinality(recallEntries) < MaxStored
  /\ e \notin recallEntries
  /\ recallEntries' = recallEntries \cup {e}
  /\ UNCHANGED <<recallOptions, recalled, nonRecallVars>>

\* The recall of a chat request: queryMemoryEntries(memoryEntries,
\* effectivePrompt, 4, {userId, teamMode, teamId}).
Recall(userId, teamMode, teamId) ==
  LET options == [userId |-> userId, teamMode |-> teamMode, teamId |-> teamId]
  IN  /\ recallOptions' = <<options>>
      /\ recalled' \in QueryMemoryEntries(recallEntries, RecallLimit, options)
      /\ UNCHANGED <<recallEntries, nonRecallVars>>

RecallIdle ==
  /\ recallEntries = {}
  /\ recallOptions = <<>>
  /\ recalled = {}

NextRecall ==
  \/ \E e \in RecallEntry : RecallStore(e)
  \/ \E userId \in RecallIds, teamMode \in BOOLEAN, teamId \in RecallTeams :
       Recall(userId, teamMode, teamId)

\* ------------------------------------------------ arithmetic evaluator
\* Strings are sequences of one-character strings. Numbers are exact
\* fractions n/d in lowest terms with d > 0; the evaluator and the reference
\* below use the same arithmetic, so they can differ only in the order and
\* the operands of the operations they apply.
DigitChars == {"0", "2", "3"}

NumberChars == DigitChars \cup {"."}

OperatorChars == {"+", "-", "*", "/"}

ExprChars == NumberChars \cup OperatorChars \cup {"(", ")", " ", "x"}

DigitValue(ch) == CASE ch = "0" -> 0 [] ch = "2" -> 2 [] ch = "3" -> 3

Abs(i) == IF i < 0 THEN -i ELSE i

RECURSIVE Gcd(_, _)
Gcd(a, b) == IF b = 0 THEN a ELSE Gcd(b, a % b)

ExprNull == [k |-> "null", n |-> 0, d |-> 1]

ExprNaN == [k |-> "nan", n |-> 0, d |-> 1]

Fraction(n, d) ==
  LET g == Gcd(Abs(n), Abs(d))
      s == IF d < 0 THEN -1 ELSE 1
  IN  [k |-> "num", n |-> (s * n) \div g, d |-> (s * d) \div g]

IsFinite(v) == v.k = "num"

\* a + b, a - b, a * b and (b === 0 ? NaN : a / b) on finite numbers.
Apply(op, a, b) ==
  CASE op = "+" -> Fraction(a.n * b.d + b.n * a.d, a.d * b.d)
    [] op = "-" -> Fraction(a.n * b.d - b.n * a.d, a.d * b.d)
    [] op = "*" -> Fraction(a.n * b.n, a.d * b.d)
    [] op = "/" -> IF b.n = 0 THEN ExprNaN ELSE Fraction(a.n * b.d, a.d * b.n)

RECURSIVE DigitsValue(_)
DigitsValue(s) ==
  IF s = <<>> THEN 0
  ELSE 10 * DigitsValue(SubSeq(s, 1, Len(s) - 1)) + DigitValue(s[Len(s)])

RECURSIVE Pow10(_)
Pow10(i) == IF i = 0 THEN 1 ELSE 10 * Pow10(i - 1)

\* Number(token) for a token of the tokenizer: digits with at most one "."
\* and at least one digit are a number, anything else is NaN.
NumberOf(token) ==
  LET dots == {i \in 1..Len(token) : token[i] = "."}
  IN  IF \E i \in 1..Len(token) : token[i] \notin NumberChars THEN ExprNaN
      ELSE IF Cardinality(dots) > 1 \/ Len(token) = Cardinality(dots) THEN ExprNaN
      ELSE IF dots = {} THEN Fraction(DigitsValue(token), 1)
      ELSE LET p == CHOOSE i \in dots : TRUE
               whole == SubSeq(token, 1, p - 1)
               frac == SubSeq(token, p + 1, Len(token))
           IN  Fraction(DigitsValue(whole) * Pow10(Len(frac)) + DigitsValue(frac),
                        Pow10(Len(frac)))

\* String.prototype.replace(/\s+/g, "").
RemoveSpaces(s) == SelectSeq(s, LAMBDA ch : ch # " ")

RECURSIVE Trim(_)
Trim(s) ==
  IF s = <<>> THEN s
  ELSE IF Head(s) = " " THEN Trim(Tail(s))
  ELSE IF s[Len(s)] = " " THEN Trim(SubSeq(s, 1, Len(s) - 1))
  ELSE s

\* normalized.replace(/\(-/g, "(0-").
RECURSIVE ReplaceOpenMinus(_)
ReplaceOpenMinus(s) ==
  IF Len(s) < 2 THEN s
  ELSE IF s[1] = "(" /\ s[2] = "-"
         THEN <<"(", "0", "-">> \o ReplaceOpenMinus(SubSeq(s, 3, Len(s)))
         ELSE <<s[1]>> \o ReplaceOpenMinus(Tail(s))

RECURSIVE NumberPrefix(_)
NumberPrefix(s) ==
  IF s # <<>> /\ Head(s) \in NumberChars THEN 1 + NumberPrefix(Tail(s)) ELSE 0

\* tokenizeExpression: acc is the tokens array; the result of a run that hits
\* a character it does not know is not ok (the code's null).
RECURSIVE TokenizeFrom(_, _)
TokenizeFrom(cleaned, acc) ==
  IF cleaned = <<>> THEN [ok |-> TRUE, tokens |-> acc]
  ELSE IF Head(cleaned) \in NumberChars
    THEN LET len == NumberPrefix(cleaned)
         IN  TokenizeFrom(SubSeq(cleaned, len + 1, Len(cleaned)),
                          Append(acc, SubSeq(cleaned, 1, len)))
  ELSE IF Head(cleaned) \in OperatorChars \cup {"(", ")"}
    THEN TokenizeFrom(Tail(cleaned), Append(acc, <<Head(cleaned)>>))
  ELSE [ok |-> FALSE, tokens |-> <<>>]

TokenizeExpression(s) == TokenizeFrom(RemoveSpaces(s), <<>>)

Prec(op) == IF op \in {"*", "/"} THEN 2 ELSE 1

\* The inner while loop of toRpn for an operator token: pops operators of
\* at least the token's precedence from the stack to the output.
RECURSIVE PopOperators(_, _, _)
PopOperators(output, stack, op) ==
  IF /\ stack # <<>>
     /\ stack[Len(stack)] \in OperatorChars
     /\ Prec(stack[Len(stack)]) >= Prec(op)
    THEN PopOperators(Append(output, <<stack[Len(stack)]>>),
                      SubSeq(stack, 1, Len(stack) - 1), op)
    ELSE [output |-> output, stack |-> stack]

\* The while loop of toRpn for ")": pops to the output down to the nearest "(".
RECURSIVE PopToOpen(_, _)
PopToOpen(output, stack) ==
  IF stack # <<>> /\ stack[Len(stack)] # "("
    THEN PopToOpen(Append(output, <<stack[Len(stack)]>>),
                   SubSeq(stack, 1, Len(stack) - 1))
    ELSE [output |-> output, stack |-> stack]

\* The final loop of toRpn: the rest of the stack goes to the output; a
\* parenthesis left on it makes the result null.
RECURSIVE Drain(_, _)
Drain(output, stack) ==
  IF stack = <<>> THEN [ok |-> TRUE, rpn |-> output]
  ELSE IF stack[Len(stack)] \in {"(", ")"} THEN [ok |-> FALSE, rpn |-> <<>>]
  ELSE Drain(Append(output, <<stack[Len(stack)]>>), SubSeq(stack, 1, Len(stack) - 1))

\* toRpn from token i on.
RECURSIVE ToRpnFrom(_, _, _, _)
ToRpnFrom(tokens, i, output, stack) ==
  IF i > Len(tokens) THEN Drain(output, stack)
  ELSE LET token == tokens[i] IN
    IF NumberOf(token) # ExprNaN
      THEN ToRpnFrom(tokens, i + 1, Append(output, token), stack)
    ELSE IF token = <<"(">>
      THEN ToRpnFrom(tokens, i + 1, output, Append(stack, "("))
    ELSE IF token = <<")">>
      THEN LET p == PopToOpen(output, stack)
           IN  IF p.stack = <<>> THEN [ok |-> FALSE, rpn |-> <<>>]
               ELSE ToRpnFrom(tokens, i + 1, p.output,
                              SubSeq(p.stack, 1, Len(p.stack) - 1))
    ELSE IF Len(token) = 1 /\ token[1] \in OperatorChars
      THEN LET p == PopOperators(output, stack, token[1])
           IN  ToRpnFrom(tokens, i + 1, p.output, Append(p.stack, token[1]))
    ELSE [ok |-> FALSE, rpn |-> <<>>]

ToRpn(tokens) == ToRpnFrom(tokens, 1, <<>>, <<>>)

\* evalRpn from token i on. Popping an empty stack gives undefined, which is
\* not finite.
RECURSIVE EvalRpnFrom(_, _, _)
EvalRpnFrom(rpn, i, stack) ==
  IF i > Len(rpn)
    THEN IF Len(stack) # 1 THEN ExprNull ELSE stack[1]
  ELSE IF NumberOf(rpn[i]) # ExprNaN
    THEN EvalRpnFrom(rpn, i + 1, Append(stack, NumberOf(rpn[i])))
  ELSE IF Len(stack) < 2 THEN ExprNull
  ELSE LET b == stack[Len(stack)]
           a == stack[Len(stack) - 1]
       IN  IF ~IsFinite(a) \/ ~IsFinite(b) THEN ExprNull
           ELSE EvalRpnFrom(rpn, i + 1,
                  Append(SubSeq(stack, 1, Len(stack) - 2), Apply(rpn[i][1], a, b)))

EvalRpn(rpn) == EvalRpnFrom(rpn, 1, <<>>)

\* The character class of safeEvaluateExpression's test /^[\d\s+\-*/().]+$/.
AllowedChars == NumberChars \cup OperatorChars \cup {"(", ")", " "}

SafeEvaluateExpressionLenient(e) ==
  LET raw == Trim(e)
      known == SelectSeq(raw, LAMBDA ch : ch \in AllowedChars)
      spaceless == RemoveSpaces(known)
      zeroed == IF spaceless # <<>> /\ spaceless[1] = "-"
                  THEN <<"0">> \o spaceless ELSE spaceless
      tokens == TokenizeExpression(ReplaceOpenMinus(zeroed))
      rpn == ToRpn(tokens.tokens)
      result == EvalRpn(rpn.rpn)
  IN  IF raw = <<>> \/ ~tokens.ok \/ ~rpn.ok \/ ~IsFinite(result)
        THEN ExprNull ELSE result

SafeEvaluateExpression(e) ==
  LET raw == Trim(e)
      spaceless == RemoveSpaces(raw)
      zeroed == IF spaceless # <<>> /\ spaceless[1] = "-"
                  THEN <<"0">> \o spaceless ELSE spaceless
      normalized == ReplaceOpenMinus(zeroed)
      tokens == TokenizeExpression(normalized)
      rpn == ToRpn(tokens.tokens)
      result == EvalRpn(rpn.rpn)
  IN  IF raw = <<>> THEN ExprNull
      ELSE IF \E i \in 1..Len(raw) : raw[i] \notin AllowedChars THEN ExprNull
      ELSE IF ~tokens.ok THEN ExprNull
      ELSE IF ~rpn.ok THEN ExprNull
      ELSE IF ~IsFinite(result) THEN ExprNull
      ELSE result

\* A caller composes the expression, one character at a time.
ExprType(ch) ==
  /\ Len(expr) < MaxExprLen
  /\ exprResult = <<>>
  /\ expr' = Append(expr, ch)
  /\ UNCHANGED <<exprResult, nonExprVars>>

\* safeEvaluateExpression(expr).
ExprEvaluate ==
  /\ exprResult = <<>>
  /\ exprResult' = <<SafeEvaluateExpression(expr)>>
  /\ UNCHANGED <<expr, nonExprVars>>

ExprIdle ==
  /\ expr = <<>>
  /\ exprResult = <<>>

NextExpr ==
  \/ \E ch \in ExprChars : ExprType(ch)
  \/ ExprEvaluate

\* ------------------------------------------------ errors of attempts
ErrIdle == attemptError = [r \in Reqs |-> NoError]

\* ------------------------------------------------- writes to the cache
\* The responseCache of a server that has answered n distinct requests: key
\* i holds value 0.
KvFilled(n) == [i \in 1..n |-> [key |-> i, value |-> 0]]

\* Keys written: the oldest two, the newest one, and new ones.
KvKeys == {1, 2, MAX_CACHE_ENTRIES - 1, MAX_CACHE_ENTRIES, MAX_CACHE_ENTRIES + 1}

KvValues == {0, 1}

\* storeInCache(cacheKey, result, cacheTtlMs) at the end of
\* generateResponseWithCache; requests that missed the cache for the same
\* key while the backend call of another was pending write one after the other.
KvStore(key, value) ==
  /\ kvWrites < MaxKvWrites
  /\ kvWrites' = kvWrites + 1
  /\ kvBefore' = kvCache
  /\ kvLast' = <<[key |-> key, value |-> value]>>
  /\ kvCache' = StoreInCache(kvCache, key, value)
  /\ UNCHANGED nonKvVars

KvIdle ==
  /\ kvCache = <<>>
  /\ kvBefore = <<>>
  /\ kvLast = <<>>
  /\ kvWrites = 0

\* A server whose cache is full or two entries short of full.
KvInit ==
  /\ kvCache \in {KvFilled(MAX_CACHE_ENTRIES - 2), KvFilled(MAX_CACHE_ENTRIES)}
  /\ kvBefore = kvCache
  /\ kvLast = <<>>
  /\ kvWrites = 0

NextKv == \E key \in KvKeys, value \in KvValues : KvStore(key, value)


\* --------------------------------------------------- context assembly
\* The handler from the miss of the instant engine to the composed prompt,
\* for a request with payload.fast (any other request has left the handler
\* at the read of bypassHeavy), rag lookups requested and a SQLite database
\* configured.
CtxIntents == {"SIMPLE_QA", "RANKING_QUERY", "MULTI_STEP", "SQL_QUERY"}

\* requiresWeb of the intent catalog.
RequiresWeb(i) == i \in {"RANKING_QUERY", "MULTI_STEP"}

CtxRequests ==
  [intent : CtxIntents,
   confident : BOOLEAN,  \* intentData.confidence === "HIGH"
   light : BOOLEAN,      \* shouldBypassHeavyWork of the prompt classified
   followup : BOOLEAN,   \* the prompt is a follow-up expansion (forceNoWeb)
   autoWeb : BOOLEAN,    \* payload.autoWeb === true
   auto : BOOLEAN,       \* payload.auto === true || payload.task === "auto"
   web : {"true", "false", "unset"},  \* "enabled" of the web section of the config
   urls : BOOLEAN,       \* extractUrls(incomingPrompt) is not empty
   useWeb : BOOLEAN,     \* shouldUseWeb(effectivePrompt)
   files : BOOLEAN,      \* payload.filePaths is not empty
   model : BOOLEAN]      \* payload.model is given

NoRequest == [intent |-> "SIMPLE_QA", confident |-> FALSE, light |-> FALSE,
              followup |-> FALSE, autoWeb |-> FALSE, auto |-> FALSE, web |-> "unset",
              urls |-> FALSE, useWeb |-> FALSE, files |-> FALSE, model |-> FALSE]

IsRankingIntent(req) == req.intent = "RANKING_QUERY"

\* const shouldAutoWeb = intentData.requiresWeb || (SIMPLE_QA && confidence !== "HIGH").
ShouldAutoWeb(req) ==
  RequiresWeb(req.intent) \/ (req.intent = "SIMPLE_QA" /\ ~req.confident)

\* autoWebEnabled and skipWebForIntent of context assembly.
AutoWebEnabled(req) ==
  req.web # "false" /\ (req.autoWeb \/ IsRankingIntent(req)) /\ ~req.followup

SkipWebForIntent(req) ==
  IF IsRankingIntent(req) THEN FALSE
  ELSE ~RequiresWeb(req.intent) /\ ~(req.intent = "SIMPLE_QA" /\ ~req.confident)

\* The instant engine missed: the web search that precedes everything else,
\* "if (shouldAutoWeb && config.web.enabled)", up to its await of searchWeb.
CtxReceive(req) ==
  /\ ctxPc = "idle"
  /\ ctxReq' = req
  /\ ctxLight' = req.light
  /\ IF ShouldAutoWeb(req) /\ req.web = "true"
       THEN ctxPc' = "web" /\ ctxOps' = {"web_search"}
       ELSE ctxPc' = (IF req.auto THEN "files" ELSE "done") /\ ctxOps' = {}
  /\ UNCHANGED <<ctxBypass, ctxSources, nonCtxVars>>

\* searchWeb returned or threw. With results incomingPrompt becomes the
\* enriched prompt, which is longer than the prompt it holds.
CtxWebReturn ==
  /\ ctxPc = "web"
  /\ \E threw \in BOOLEAN, light \in BOOLEAN :
       /\ threw => light = ctxLight
       /\ light => ctxLight
       /\ ctxLight' = light
  /\ ctxPc' = IF ctxReq.auto THEN "files" ELSE "done"
  /\ UNCHANGED <<ctxReq, ctxBypass, ctxSources, ctxOps, nonCtxVars>>

\* "if (autoRequested) {": the prompt may be rewritten (effectivePrompt),
\* bypassHeavy is computed from it; file auto-selection and loadFileContexts.
CtxFiles ==
  /\ ctxPc = "files"
  /\ \E rewritten \in BOOLEAN, light \in BOOLEAN :
       /\ ~rewritten => light = ctxLight
       /\ ctxBypass' = light
       /\ ctxOps' = ctxOps
            \cup (IF ~light /\ ~ctxReq.files THEN {"auto_select_files"} ELSE {})
            \cup (IF ~light THEN {"load_files"} ELSE {})
  /\ ctxPc' = "webctx"
  /\ UNCHANGED <<ctxReq, ctxLight, ctxSources, nonCtxVars>>

\* The web block of context assembly: pages of the prompt's URLs, or a
\* search (and for a ranking intent the first pages found); then the refusal
\* of a ranking request without sources.
CtxWeb ==
  /\ ctxPc = "webctx"
  /\ LET req == ctxReq
         open == ~ctxBypass /\ AutoWebEnabled(req) /\ ~SkipWebForIntent(req)
         fetch == open /\ req.urls
         search == open /\ ~req.urls /\ req.useWeb
     IN  \E found \in BOOLEAN :
           /\ found => (fetch \/ search)
           /\ ctxSources' = found
           /\ ctxOps' = ctxOps
                \cup (IF fetch THEN {"page_fetch"} ELSE {})
                \cup (IF search THEN {"web_search"} ELSE {})
                \cup (IF search /\ found /\ IsRankingIntent(req) THEN {"page_fetch"} ELSE {})
           /\ ctxPc' = IF IsRankingIntent(req) /\ ~found THEN "done" ELSE "recall"
  /\ UNCHANGED <<ctxReq, ctxLight, ctxBypass, nonCtxVars>>

\* Memory recall, doc index and embeddings lookup, SQL schema, planner.
CtxRecall ==
  /\ ctxPc = "recall"
  /\ ctxOps' = ctxOps
       \cup (IF ~ctxBypass THEN {"memory_recall", "rag_lookup"} ELSE {})
       \cup (IF ~ctxBypass /\ ctxReq.intent = "SQL_QUERY" THEN {"sql_schema"} ELSE {})
       \cup (IF ctxReq.intent = "MULTI_STEP" /\ ~ctxReq.model THEN {"planner"} ELSE {})
  /\ ctxPc' = "done"
  /\ UNCHANGED <<ctxReq, ctxLight, ctxBypass, ctxSources, nonCtxVars>>

CtxIdle ==
  /\ ctxPc = "idle"
  /\ ctxReq = NoRequest
  /\ ctxLight = FALSE
  /\ ctxBypass = FALSE
  /\ ctxSources = FALSE
  /\ ctxOps = {}

NextCtx ==
  \/ \E req \in CtxRequests : CtxReceive(req)
  \/ CtxWebReturn
  \/ CtxFiles
  \/ CtxWeb
  \/ CtxRecall

\* ------------------------------------------------ conversation summaries
RECURSIVE SumOver(_, _)
SumOver(f, S) ==
  IF S = {} THEN 0
  ELSE LET u == CHOOSE x \in S : TRUE IN f[u] + SumOver(f, S \ {u})

SumCount(f) == SumOver(f, ConvUsers)

\* getStats(userId).totalMessages: the length of the user's buffer.
GetStatsTotal(conv) == Len(conv)

\* A reply completes: storeUserMessage and storeAssistantMessage add the
\* prompt and the reply, and a timer for summarizeConversationIfNeeded is set.
SumReply(u) ==
  /\ SumCount(sumAdded) < 2 * MaxReplies
  /\ SumCount(sumTimers) + Len(sumCalls) < MaxSummaryCalls
  /\ sumConv' = [sumConv EXCEPT
                   ![u] = AddMessage(AddMessage(@, "user", 0), "assistant", 0)]
  /\ sumAdded' = [sumAdded EXCEPT ![u] = @ + 2]
  /\ sumTimers' = [sumTimers EXCEPT ![u] = @ + 1]
  /\ UNCHANGED <<sumCalls, sumTracker, sumEmitted, sumFailed, nonSumVars>>

\* summarizeConversationIfNeeded up to its await of callOllamaGenerate.
SumTimerFire(u) ==
  /\ sumTimers[u] > 0
  /\ sumTimers' = [sumTimers EXCEPT ![u] = @ - 1]
  /\ LET total == GetStatsTotal(sumConv[u])
     IN  sumCalls' =
           IF total < SUMMARY_EVERY_MESSAGES
              \/ total - sumTracker[u] < SUMMARY_EVERY_MESSAGES
             THEN sumCalls
             ELSE Append(sumCalls, [userId |-> u, total |-> total])
  /\ UNCHANGED <<sumConv, sumAdded, sumTracker, sumEmitted, sumFailed, nonSumVars>>

\* The model answered: the entry is pushed, saved, and the tracker is set to
\* the total read before the call; a save that throws leaves the tracker.
SumReturn(i) ==
  /\ i \in DOMAIN sumCalls
  /\ LET c == sumCalls[i]
     IN  /\ sumEmitted' = [sumEmitted EXCEPT ![c.userId] = @ + 1]
         /\ \E saved \in BOOLEAN :
              /\ sumTracker' = IF saved THEN [sumTracker EXCEPT ![c.userId] = c.total]
                               ELSE sumTracker
              /\ sumFailed' = (sumFailed \/ ~saved)
  /\ sumCalls' = RemoveAt(sumCalls, i)
  /\ UNCHANGED <<sumConv, sumAdded, sumTimers, nonSumVars>>

\* The model call threw: the catch logs a warning.
SumThrow(i) ==
  /\ i \in DOMAIN sumCalls
  /\ sumCalls' = RemoveAt(sumCalls, i)
  /\ sumFailed' = TRUE
  /\ UNCHANGED <<sumConv, sumAdded, sumTimers, sumTracker, sumEmitted, nonSumVars>>

SumIdle ==
  /\ sumConv = [u \in ConvUsers |-> <<>>]
  /\ sumAdded = [u \in ConvUsers |-> 0]
  /\ sumTimers = [u \in ConvUsers |-> 0]
  /\ sumCalls = <<>>
  /\ sumTracker = [u \in ConvUsers |-> 0]
  /\ sumEmitted = [u \in ConvUsers |-> 0]
  /\ sumFailed = FALSE

NextSum ==
  \/ \E u \in ConvUsers : SumReply(u)
  \/ \E u \in ConvUsers : SumTimerFire(u)
  \/ \E i \in 1..MaxSummaryCalls : SumReturn(i)
  \/ \E i \in 1..MaxSummaryCalls : SumThrow(i)

\* ------------------------------------- response cache: values and load
\* A cached response is identified by the timestamp it was set with; the
\* items found in the file at startup were written by an earlier run (0).
LdKeys == {"k1", "k2"}

LdItem(k, t) == [key |-> k, timestamp |-> t]

LdHas(c, k) == \E i \in 1..Len(c) : c[i].key = k

\* Map.prototype.set: an existing key keeps its place and takes the value.
LdMapSet(c, e) ==
  IF LdHas(c, e.key)
    THEN [i \in 1..Len(c) |-> IF c[i].key = e.key THEN e ELSE c[i]]
    ELSE Append(c, e)

\* for (const item of items) cache.set(item.key, {...item}).
RECURSIVE LdMapSetAll(_, _)
LdMapSetAll(c, items) ==
  IF items = <<>> THEN c
  ELSE LdMapSetAll(LdMapSet(c, Head(items)), Tail(items))

\* if (!cacheLoaded) ensureCacheLoaded(): the flag is set, the read starts.
LdEnsure == IF ldLoad = "idle" THEN "reading" ELSE ldLoad

\* setCachedResponse(cacheKey, response).
LdSetCachedResponse(k) ==
  /\ ldClock <= MaxLdSets
  /\ LET kept == IF Len(ldCache) >= MAX_CACHE_SIZE THEN Tail(ldCache) ELSE ldCache
     IN  ldCache' = LdMapSet(kept, LdItem(k, ldClock))
  /\ ldLoad' = LdEnsure
  /\ ldSet' = [ldSet EXCEPT ![k] = ldClock]
  /\ ldClock' = ldClock + 1
  /\ ldTimer' = TRUE
  /\ UNCHANGED <<ldFile, nonLdVars>>

\* getCachedResponse(cacheKey) of an entry within its ttl.
LdGetCachedResponse ==
  /\ ldLoad = "idle"
  /\ ldLoad' = LdEnsure
  /\ UNCHANGED <<ldCache, ldFile, ldTimer, ldClock, ldSet, nonLdVars>>

\* ensureCacheLoaded after readFile: every item of the file is set.
LdLoadReturn ==
  /\ ldLoad = "reading"
  /\ ldLoad' = "done"
  /\ ldCache' = LdMapSetAll(ldCache, ldFile)
  /\ UNCHANGED <<ldFile, ldTimer, ldClock, ldSet, nonLdVars>>

\* The save timer's callback: the Map's entries are written to the file.
LdSave ==
  /\ ldTimer
  /\ ldTimer' = FALSE
  /\ ldFile' = ldCache
  /\ UNCHANGED <<ldCache, ldLoad, ldClock, ldSet, nonLdVars>>

LdIdle ==
  /\ ldCache = <<>>
  /\ ldLoad = "idle"
  /\ ldFile = <<>>
  /\ ldTimer = FALSE
  /\ ldClock = 1
  /\ ldSet = [k \in LdKeys |-> 0]

\* The server starts with the file an earlier run left.
LdFiles ==
  {<<>>, <<LdItem("k1", 0)>>, <<LdItem("k2", 0)>>,
   <<LdItem("k1", 0), LdItem("k2", 0)>>, <<LdItem("k2", 0), LdItem("k1", 0)>>}

LdInit ==
  /\ ldCache = <<>>
  /\ ldLoad = "idle"
  /\ ldFile \in LdFiles
  /\ ldTimer = FALSE
  /\ ldClock = 1
  /\ ldSet = [k \in LdKeys |-> 0]

NextLd ==
  \/ \E k \in LdKeys : LdSetCachedResponse(k)
  \/ LdGetCachedResponse
  \/ LdLoadReturn
  \/ LdSave

\* ------------------------------------------------------ report progress
Progress(status, progress) == [status |-> status, progress |-> progress]

\* Math.floor(Math.min(90, 20 + tokenCount / 10)).
FlooredProgress(tokenCount) ==
  LET p == 20 + (tokenCount \div 10) IN IF p > 90 THEN 90 ELSE p

\* getReportStatus(reportId).
GetReportStatus(rid) ==
  IF progEntry[rid] # <<>> THEN progEntry[rid][1] ELSE [status |-> "not_found"]

\* generateReportAsync up to its await of streamOllamaGenerate: the entry is
\* set, onProgress is called with starting/5 and analyzing/20.
ProgStart(rid) ==
  /\ progPc[rid] = "idle"
  /\ progPc' = [progPc EXCEPT ![rid] = "streaming"]
  /\ progEntry' = [progEntry EXCEPT ![rid] = <<Progress("generating", 0)>>]
  /\ progLast' = [progLast EXCEPT ![rid] = <<Progress("analyzing", 20)>>]
  /\ UNCHANGED <<progTokens, nonProgVars>>

\* onToken: onProgress is called when the floored progress has grown.
ProgToken(rid) ==
  /\ progPc[rid] = "streaming"
  /\ progTokens[rid] < MaxReportTokens
  /\ progTokens' = [progTokens EXCEPT ![rid] = @ + 1]
  /\ LET p == FlooredProgress(progTokens[rid] + 1)
     IN  progLast' = IF p > progLast[rid][1].progress
                       THEN [progLast EXCEPT ![rid] = <<Progress("generating", p)>>]
                       ELSE progLast
  /\ UNCHANGED <<progPc, progEntry, nonProgVars>>

\* The stream resolved: formatting/95, complete/100, the entry is deleted.
ProgReturn(rid) ==
  /\ progPc[rid] = "streaming"
  /\ progPc' = [progPc EXCEPT ![rid] = "done"]
  /\ progLast' = [progLast EXCEPT ![rid] = <<Progress("complete", 100)>>]
  /\ progEntry' = [progEntry EXCEPT ![rid] = <<>>]
  /\ UNCHANGED <<progTokens, nonProgVars>>

\* The stream rejected: the catch deletes the entry.
ProgThrow(rid) ==
  /\ progPc[rid] = "streaming"
  /\ progPc' = [progPc EXCEPT ![rid] = "failed"]
  /\ progEntry' = [progEntry EXCEPT ![rid] = <<>>]
  /\ UNCHANGED <<progTokens, progLast, nonProgVars>>

ProgIdle ==
  /\ progPc = [rid \in ReportIds |-> "idle"]
  /\ progEntry = [rid \in ReportIds |-> <<>>]
  /\ progTokens = [rid \in ReportIds |-> 0]
  /\ progLast = [rid \in ReportIds |-> <<>>]

NextProg ==
  \/ \E rid \in ReportIds : ProgStart(rid)
  \/ \E rid \in ReportIds : ProgToken(rid)
  \/ \E rid \in ReportIds : ProgReturn(rid)
  \/ \E rid \in ReportIds : ProgThrow(rid)

ExtraIdle == AnsIdle /\ ChainIdle /\ ConvIdle /\ RepIdle /\ RecallIdle /\ ExprIdle /\ ErrIdle /\ KvIdle /\ CtxIdle /\ SumIdle /\ LdIdle /\ ProgIdle

OtherIdle == AnsIdle /\ ChainIdle /\ ConvIdle /\ RepIdle /\ RecallIdle /\ ExprIdle /\ ErrIdle /\ CtxIdle /\ SumIdle /\ LdIdle /\ ProgIdle

ExtraIdleButLd == AnsIdle /\ ChainIdle /\ ConvIdle /\ RepIdle /\ RecallIdle /\ ExprIdle /\ ErrIdle /\ KvIdle /\ CtxIdle /\ SumIdle /\ ProgIdle

\* ----------------------------------------------------------- specification
MemIdle ==
  /\ memoryEntries = 1
  /\ arrays = <<<<>>>>
  /\ memoryFile = <<>>
  /\ saves = <<>>
  /\ nextId = 1
  /\ lastSaved = <<>>
  /\ expired = {}
  /\ purges = 0
  /\ purged = {}
  /\ queried = [n |-> 0, leak |-> {}]

Init == WsInit /\ MemIdle /\ CacheIdle /\ HttpIdle /\ ExtraIdle

\* One client sending one message.
Solo == {"a"}

Next ==
  \/ \E r \in Solo : Receive(r)
  \/ \E r \in Solo : FastQaReturn(r)
  \/ \E r \in Solo : InstantReturn(r)
  \/ \E r \in Solo : WebReturn(r)
  \/ \E r \in Solo : ToolReturn(r)
  \/ \E r \in Solo : AssembleReturn(r)
  \/ \E r \in Solo : Token(r)
  \/ \E r \in Solo : AttemptDone(r)
  \/ \E r \in Solo : AttemptFail(r)
  \/ \E r \in Solo : PhaseTick(r)
  \/ \E r \in Solo : AwaitPhases(r)
  \/ \E r \in Solo : PostValReturn(r)
  \/ \E r \in Solo : CacheEmbedReturn(r)
  \/ \E id \in Ids : Cancel(id)
  \/ \E r \in Solo : Close(r)

Spec == Init /\ [][Next]_vars

\* Two auto requests of two clients whose context assembly is in flight at
\* the same time (both were classified SIMPLE_QA and stored their user
\* message); the socket of "b" closed while its context was assembled.
PairInit ==
  /\ MemIdle
  /\ CacheIdle
  /\ HttpIdle
  /\ ExtraIdle
  /\ pc = [r \in Reqs |-> "assemble"]
  /\ events = [r \in Reqs |-> <<Ev("intent_classification", 0, "", "SIMPLE_QA")>>]
  /\ responseText = [r \in Reqs |-> <<>>]
  /\ usedModel = [r \in Reqs |-> None]
  /\ intent = [r \in Reqs |-> "SIMPLE_QA"]
  /\ hasSources = [r \in Reqs |-> FALSE]
  /\ userStored = [r \in Reqs |-> TRUE]
  /\ requestId = [r \in Reqs |-> None]
  /\ aborted = [r \in Reqs |-> FALSE]
  /\ closeHandler = [r \in Reqs |-> FALSE]
  /\ wsOpen = [r \in Reqs |-> r = "a"]
  /\ phaseIdx = [r \in Reqs |-> 0]
  /\ numPhases = [r \in Reqs |-> 0]
  /\ activeRequests = [id \in Ids |-> None]
  /\ conversation = <<[role |-> "user", req |-> "a"], [role |-> "user", req |-> "b"]>>
  /\ backendCalls = [r \in Reqs |-> <<>>]
  /\ cancelStage = [r \in Reqs |-> "no"]
  /\ responseCache = {}

NextPair ==
  \/ \E r \in Reqs : AssembleReturn(r)
  \/ \E r \in Reqs : Token(r)
  \/ \E r \in Reqs : AttemptDone(r)
  \/ \E r \in Reqs : AttemptFail(r)
  \/ \E r \in Reqs : PhaseTick(r)
  \/ \E r \in Reqs : AwaitPhases(r)
  \/ \E r \in Reqs : CacheEmbedReturn(r)
  \/ \E id \in Ids : Cancel(id)
  \/ \E r \in Reqs : Close(r)

SpecPair == PairInit /\ [][NextPair]_vars

\* The memory store on its own: no WebSocket request in flight.
NextMem ==
  \/ MemoryStore
  \/ MemoryDelete
  \/ \E k \in 1..MaxInFlight : SaveSlice(k)
  \/ \E k \in 1..MaxInFlight : SaveWrite(k)

InitMem == WsInit /\ MemInit /\ CacheIdle /\ HttpIdle /\ ExtraIdle

SpecMem == InitMem /\ [][NextMem]_vars

\* The memory store with entries expiring, purges and queries.
NextPurge ==
  \/ MemoryStore
  \/ MemoryExpire
  \/ MemoryPurge
  \/ MemoryQuery
  \/ \E k \in 1..MaxInFlight : SaveSlice(k)
  \/ \E k \in 1..MaxInFlight : SaveWrite(k)

SpecPurge == InitMem /\ [][NextPurge]_vars

\* The response cache on its own.
NextCache ==
  \/ SetCachedResponse
  \/ GetCachedResponse
  \/ CacheLoadRead
  \/ SaveTimerFire
  \/ \E k \in 1..MaxInFlight : CacheSaveItems(k)
  \/ \E k \in 1..MaxInFlight : CacheWriteOpen(k)
  \/ \E k \in 1..MaxInFlight : CacheWriteDone(k)

InitCache == WsInit /\ MemIdle /\ CacheInit /\ HttpIdle /\ ExtraIdle

SpecCache == InitCache /\ [][NextCache]_vars

\* POST /api/auto on its own: requests handled one after the other.
NextAuto ==
  \/ AutoReceive
  \/ AutoRewriteReturn
  \/ AutoToolReturn
  \/ AutoFilesReturn
  \/ AutoGenerateReturn
  \/ AutoQcReturn

InitAuto == WsInit /\ MemIdle /\ CacheIdle /\ HttpInit /\ ExtraIdle

SpecAuto == InitAuto /\ [][NextAuto]_vars

\* The answers the server delivers, one after the other.
NextAnswer ==
  \/ AnswerLocal
  \/ AnswerCoreFast
  \/ AnswerModel
  \/ AnswerRanking
  \/ AnswerCached

SpecAnswer == Init /\ [][NextAnswer]_vars

\* One POST /api/tools/chain request and one executeChain call.
NextChain ==
  \/ ChainReceive
  \/ ChainTool
  \/ ChainLmReturn
  \/ ExecStart
  \/ ExecTool

SpecChain == InitAuto /\ [][NextChain]_vars

SpecConv == Init /\ [][NextConv]_vars

SpecReport == Init /\ [][NextReport]_vars

SpecRecall == Init /\ [][NextRecall]_vars

SpecExpr == Init /\ [][NextExpr]_vars

\* The chat handler with the backend's in-stream error lines told apart from
\* its other lines.
NextRetry ==
  \/ Next
  \/ \E r \in Solo : StreamErrorLine(r)

SpecRetry == Init /\ [][NextRetry]_vars

InitKv == WsInit /\ MemIdle /\ CacheIdle /\ HttpIdle /\ OtherIdle /\ KvInit

SpecKv == InitKv /\ [][NextKv]_vars

SpecCtx == Init /\ [][NextCtx]_vars

SpecSum == Init /\ [][NextSum]_vars

InitLd == WsInit /\ MemIdle /\ CacheIdle /\ HttpIdle /\ ExtraIdleButLd /\ LdInit

SpecLd == InitLd /\ [][NextLd]_vars

SpecProg == Init /\ [][NextProg]_vars

\* ------------------------------------------------------------------ claims
Has(log, t) == \E i \in 1..Len(log) : log[i].type = t

LastEv(log) == log[Len(log)]

CountOf(log, t) == Cardinality({i \in 1..Len(log) : log[i].type = t})

\* C1: on every request stream `done` or `error` is the last event: once
\* either has been sent, no further event of any type is sent for that
\* request.
C1_TerminalEventIsLast ==
  \A r \in Reqs : \A i \in 1..Len(events[r]) :
    events[r][i].type \in {"done", "error"} => i = Len(events[r])

\* A model answer: both reasoning phases and a streamed token precede done.
C1_Witness ==
  \E r \in Reqs :
    /\ events[r] # <<>>
    /\ LastEv(events[r]).type = "done"
    /\ LastEv(events[r]).model \in Models
    /\ CountOf(events[r], "reasoning_phase") = 2
    /\ \E i \in 1..Len(events[r]) : events[r][i].type = "token" /\ events[r][i].att = 1

\* C2: after POST /api/cancel has answered "cancelled" for a request's
\* handle, or after its socket has closed, no token and no done event is
\* emitted for it, at whatever stage the cancel arrived.
C2_NoTokenOrDoneAfterCancel ==
  [][\A r \in Reqs :
       (cancelStage[r] # "no" \/ ~wsOpen[r]) =>
         \A i \in (Len(events[r]) + 1)..Len(events'[r]) :
           events'[r][i].type \notin {"token", "done"}]_vars

C4_TerminalNotRegistered ==
  \A r \in Reqs :
    (pc[r] \in Terminal /\ requestId[r] # None) =>
      CancelStatus(requestId[r]) = "not_found"

\* C5: at no time do two in-flight streaming requests hold the same
\* requestId.
InFlight(r) == requestId[r] # None /\ pc[r] \notin Terminal

C5_UniqueInFlight ==
  \A r1, r2 \in Reqs :
    (r1 # r2 /\ InFlight(r1) /\ InFlight(r2)) => requestId[r1] # requestId[r2]

\* C6: when the first attempt on the reasoning model fails with a memory
\* error and the fallback attempt succeeds, the events are model_fallback,
\* model_retry_start, the fallback's tokens, model_retry_done and done in
\* that order, done carries the fallback model, and the answer holds no token
\* of the first attempt.
Supervisor(log) ==
  SelectSeq(log, LAMBDA e : e.type \in {"model_fallback", "model_retry_start",
                                        "token", "model_retry_done",
                                        "model_retry_failed", "done", "error"})

MemoryFallback(r) ==
  \E i \in 1..Len(events[r]) :
    events[r][i].type = "model_fallback" /\ events[r][i].reason = "insufficient_memory"

C6_FallbackOrder ==
  \A r \in Reqs :
    (MemoryFallback(r) /\ Has(events[r], "model_retry_done")) =>
      LET s == Supervisor(events[r])
          n == Len(s)
      IN  /\ n >= 3
          /\ s[1].type = "model_fallback"
          /\ s[1].model # ReasoningModel
          /\ s[2].type = "model_retry_start"
          /\ s[2].reason = "insufficient_memory"
          /\ \E k \in 3..n :
               /\ s[k].type = "model_retry_done"
               /\ s[k].model = s[1].model
               /\ \A j \in 3..(k - 1) : s[j].type = "token" /\ s[j].att = 2
               /\ \/ k = n
                  \/ k + 1 = n /\ s[n].type = "done" /\ s[n].model = s[1].model
          /\ \A j \in 1..Len(responseText[r]) : responseText[r][j] # 1

C6_Witness ==
  \E r \in Reqs :
    /\ MemoryFallback(r)
    /\ LastEv(events[r]).type = "done"
    /\ \E i \in 1..Len(events[r]) : events[r][i].type = "token" /\ events[r][i].att = 2

\* C7: when the fallback attempt also fails, model_retry_failed is emitted
\* and the request ends with an error event.
C7_SecondFailureTerminal ==
  \A r \in Reqs :
    ( /\ wsOpen[r] /\ cancelStage[r] = "no"
      /\ pc[r] \in Terminal
      /\ Has(events[r], "model_retry_start")
      /\ ~Has(events[r], "model_retry_done") ) =>
      (Has(events[r], "model_retry_failed") /\ LastEv(events[r]).type = "error")

\* C8: on every path that calls a backend model to produce the reply, the
\* user message is already stored when the call is made.
ReplyCalls == {"fast_qa", "attempt", "strict_ranking"}

C8_UserStoredBeforeReplyCall ==
  \A r \in Reqs : \A i \in 1..Len(backendCalls[r]) :
    backendCalls[r][i].kind \in ReplyCalls => backendCalls[r][i].stored

\* C9: a request that ends with done has appended its assistant reply
\* exactly once, and a request that ends without done has appended none.
AssistantCount(r) ==
  Cardinality({i \in 1..Len(conversation) :
                 conversation[i].role = "assistant" /\ conversation[i].req = r})

C9_ReplyAppendedOnceOnDone ==
  \A r \in Reqs :
    /\ Has(events[r], "done") => AssistantCount(r) = 1
    /\ (pc[r] \in Terminal /\ wsOpen[r] /\ ~Has(events[r], "done")) => AssistantCount(r) = 0

C11_CacheBounded ==
  /\ Len(cache) <= MAX_CACHE_SIZE
  /\ Len(cacheFile) <= MAX_CACHE_SIZE

\* C12: no memory query returns an entry whose expiresAt precedes now, and
\* once a purge has answered, the entries it removed are absent from
\* memory.json, also with other saves in flight around it.
C12_ExpiredAbsent ==
  /\ queried.leak = {}
  /\ purged \cap Range(memoryFile) = {}

\* C13: a reader of a data file sees the complete prior document or the
\* complete next one, never a partially written or empty one, at whatever
\* point of a save the read happens.
C13_ReadersSeeWholeDocument == cacheRead # "torn"

\* C14: a request whose prompt is a trivial message or an instant
\* conversation prompt is answered without any backend LM call.
C14_QuickPromptNoBackendCall ==
  \A i \in 1..Len(replies) :
    (IsTrivialMessage(replies[i].prompt) \/ IsInstantConversationPrompt(replies[i].prompt))
      => replies[i].calls = <<>>

\* C15: a request whose prompt a local solver answers is answered from that
\* solver, without any backend LM call.
C15_SolverShortCircuits ==
  \A i \in 1..Len(replies) :
    TryLocalSolvers(replies[i].prompt)
      => /\ replies[i].calls = <<>>
         /\ replies[i].text.kind = "solver"

\* C16: a stream that the local math solver answered (its done event
\* carries model "local-math") starts with intent_classification for
\* MATH_REASONING and ends with that done event.
LocalMathAnswered(log) ==
  \E i \in 1..Len(log) : log[i].type = "done" /\ log[i].model = "local-math"

C16_LocalMathStream ==
  \A r \in Reqs :
    LocalMathAnswered(events[r])
      => /\ events[r][1].type = "intent_classification"
         /\ events[r][1].reason = "MATH_REASONING"
         /\ LastEv(events[r]).type = "done"
         /\ LastEv(events[r]).model = "local-math"

\* C17: two requests with the same prompt, both answered, get the same
\* text (no cache entry expires in this model, so the second request is
\* always within the TTL of the first).
C17_RepeatIsIdentical ==
  \A i, j \in 1..Len(replies) :
    /\ i < j
    /\ replies[i].prompt = replies[j].prompt
    /\ replies[i].autoWeb = replies[j].autoWeb
    /\ replies[i].status = 200
    /\ replies[j].status = 200
    => replies[i].text = replies[j].text

\* C18: no answer to a ranking request is written to the model-response
\* cache.
C18_RankingNeverCached ==
  \A i \in 1..Len(modelCache) : ~IsLeaderboardPrompt(modelCache[i].key[1])

\* C19: a ranking request for which no web sources were obtained (POST
\* /api/auto never gets any: the web block is either off or throws) is
\* answered 200 with the stock refusal.
C19_RankingWithoutSourcesRefused ==
  \A i \in 1..Len(replies) :
    IsLeaderboardPrompt(replies[i].prompt)
      => /\ replies[i].status = 200
         /\ replies[i].text.kind = "ranking-no-sources"

\* C20 (as stated): the final response of a ranking request with web
\* sources holds a [n] citation and a numbered list.
RankingDone(r) ==
  /\ pc[r] = "ended"
  /\ intent[r] = "RANKING_QUERY"
  /\ hasSources[r]
  /\ Has(events[r], "done")

StrictRetried(r) ==
  \E i \in 1..Len(backendCalls[r]) : backendCalls[r][i].kind = "strict_ranking"

ChainStarted == chainPc = "done" /\ chainStatus \notin {400, 403}

C22_FailingStepDoesNotAbort ==
  /\ ChainStarted =>
       /\ Len(outputs) = Len(toolCalls)
       /\ \A i \in 1..Len(outputs) : toolCalls[i] = "throws" => outputs[i] = "error"
       /\ chainSeen = outputs
  /\ execPc \in {"done", "thrown"} =>
       /\ Len(timeline) = Len(execTools)
       /\ \A i \in 1..Len(execTools) :
            execTools[i] # "returns" => <<i, "error">> \in results

\* C23: every user's conversation buffer holds at most maxMemorySize (15)
\* messages in every state, and a step that appends to a full buffer drops
\* the buffer's oldest message and keeps the others in order.
ConvFifoStep(u) ==
  (Len(conversations[u]) = MaxMemorySize /\ convAdds'[u] = convAdds[u] + 1) =>
    /\ Len(conversations'[u]) = MaxMemorySize
    /\ SubSeq(conversations'[u], 1, MaxMemorySize - 1) = Tail(conversations[u])
    /\ conversations'[u][MaxMemorySize].req = convAdds'[u]

LiveJobs(rid) ==
  {j \in 1..Len(reportJobs) :
     reportJobs[j].reportId = rid /\ reportJobs[j].pc = "generating"}

C24_OneLiveJobPerReport ==
  \A rid \in ReportIds : Cardinality(LiveJobs(rid)) <= 1

\* C25: a recall returns only entries of the requester's scope: without
\* teamMode every returned entry's meta.userId equals the request's userId,
\* with teamMode every returned entry's meta.teamId equals the request's
\* teamId, whether or not userId and teamId are present.
C25_RecallStaysInScope ==
  recallOptions # <<>> =>
    \A e \in recalled :
      IF recallOptions[1].teamMode
        THEN e.teamId = recallOptions[1].teamId
        ELSE e.userId = recallOptions[1].userId

\* The reference for C26: the value of a well-formed expression over digits,
\* + - * / and parentheses on its canonical tree,
\*   sum := product (("+" | "-") product)*
\*   product := operand (("*" | "/") operand)*
\*   operand := "-" operand | digits | "(" sum ")"
\* with left-associative operators. A parse gives ok, the value and the rest
\* of the string; a division by zero makes the value non-finite.
NoParse == [ok |-> FALSE, val |-> ExprNaN, rest |-> <<>>]

Combine(op, a, b) == IF IsFinite(a) /\ IsFinite(b) THEN Apply(op, a, b) ELSE ExprNaN

RECURSIVE ParseSum(_), ParseSumRest(_, _), ParseProduct(_), ParseProductRest(_, _), ParseOperand(_)
ParseOperand(s) ==
  IF s = <<>> THEN NoParse
  ELSE IF Head(s) = "-"
    THEN LET p == ParseOperand(Tail(s))
         IN  IF p.ok THEN [p EXCEPT !.val = Combine("-", Fraction(0, 1), p.val)] ELSE NoParse
  ELSE IF Head(s) \in DigitChars
    THEN LET len == CHOOSE n \in 1..Len(s) :
                      /\ \A i \in 1..n : s[i] \in DigitChars
                      /\ (n = Len(s) \/ s[n + 1] \notin DigitChars)
         IN  [ok |-> TRUE, val |-> Fraction(DigitsValue(SubSeq(s, 1, len)), 1),
              rest |-> SubSeq(s, len + 1, Len(s))]
  ELSE IF Head(s) = "("
    THEN LET p == ParseSum(Tail(s))
         IN  IF p.ok /\ p.rest # <<>> /\ Head(p.rest) = ")"
               THEN [p EXCEPT !.rest = Tail(p.rest)] ELSE NoParse
  ELSE NoParse

ParseProductRest(left, s) ==
  IF s # <<>> /\ Head(s) \in {"*", "/"}
    THEN LET p == ParseOperand(Tail(s))
         IN  IF p.ok THEN ParseProductRest(Combine(Head(s), left, p.val), p.rest)
             ELSE NoParse
    ELSE [ok |-> TRUE, val |-> left, rest |-> s]

ParseProduct(s) ==
  LET p == ParseOperand(s) IN IF p.ok THEN ParseProductRest(p.val, p.rest) ELSE NoParse

ParseSumRest(left, s) ==
  IF s # <<>> /\ Head(s) \in {"+", "-"}
    THEN LET p == ParseProduct(Tail(s))
         IN  IF p.ok THEN ParseSumRest(Combine(Head(s), left, p.val), p.rest)
             ELSE NoParse
    ELSE [ok |-> TRUE, val |-> left, rest |-> s]

ParseSum(s) ==
  LET p == ParseProduct(s) IN IF p.ok THEN ParseSumRest(p.val, p.rest) ELSE NoParse

WellFormed(s) == ParseSum(s).ok /\ ParseSum(s).rest = <<>>

\* C26: for a well-formed expression over digits, + - * / and parentheses,
\* unary minus before any operand included, whose canonical tree has a
\* finite value, the evaluator returns that value.
C26_EvaluatesCanonicalTree ==
  (exprResult # <<>> /\ WellFormed(expr) /\ IsFinite(ParseSum(expr).val)) =>
    exprResult[1] = ParseSum(expr).val

\* C27 as stated: a string holding a character other than a digit, + - * /
\* ( or ) evaluates to nil.
C27_OutsideGrammarIsNil ==
  (exprResult # <<>> /\ \E i \in 1..Len(expr) :
       expr[i] \notin DigitChars \cup OperatorChars \cup {"(", ")"}) =>
    exprResult[1] = ExprNull

\* C27, amended: a string holding a character other than a digit, ".",
\* white space, + - * / ( or ) evaluates to nil.
C27_OutsideCharacterClassIsNil ==
  (exprResult # <<>> /\ \E i \in 1..Len(expr) : expr[i] \notin AllowedChars) =>
    exprResult[1] = ExprNull

C27_Witness ==
  /\ exprResult = <<ExprNull>>
  /\ Len(expr) = 4
  /\ expr[4] \notin AllowedChars
  /\ SafeEvaluateExpression(SubSeq(expr, 1, 3)) # ExprNull

\* The events a step sends on the socket of request r.
NewEvents(r) == SubSeq(events'[r], Len(events[r]) + 1, Len(events'[r]))

\* A step moves request r to an attempt on the fallback model and announces
\* it with model_retry_start for the given reason.
RetryStarted(r, why) ==
  /\ pc'[r] = "attempt2"
  /\ usedModel'[r] \in FallbackModels(intent[r])
  /\ Len(backendCalls'[r]) = Len(backendCalls[r]) + 1
  /\ wsOpen[r] => \E i \in 1..Len(NewEvents(r)) :
                    /\ NewEvents(r)[i].type = "model_retry_start"
                    /\ NewEvents(r)[i].reason = why

ErrorArrives(r) == attemptError'[r] # attemptError[r]

\* C28: whenever the backend delivers a memory-pressure error to the first
\* attempt of a request, whatever the model and whether the error comes as
\* an error status or inside the stream, the step emits model_retry_start
\* with reason insufficient_memory and starts an attempt on the fallback model.
C28_MemoryErrorRetries ==
  [][\A r \in Reqs :
       (ErrorArrives(r) /\ attemptError'[r].err = "memory" /\ attemptError'[r].att = 1)
         => RetryStarted(r, "insufficient_memory")]_vars

\* C29: when the deadline of a request's first attempt elapses, the step
\* emits model_retry_start with reason timeout and starts an attempt on the
\* fallback model; and no deadline ever elapses for the reasoning model.
C29_DeadlineRetries ==
  /\ [](\A r \in Reqs :
          attemptError[r].how = "deadline" => attemptError[r].model # ReasoningModel)
  /\ [][\A r \in Reqs :
          (ErrorArrives(r) /\ attemptError'[r].how = "deadline" /\ attemptError'[r].att = 1)
            => RetryStarted(r, "timeout")]_vars

\* C30: after POST /api/cancel has aborted a request, no step sends
\* model_fallback or model_retry_start for it and none starts another
\* attempt, whichever model was being attempted.
C30_CancelSuppressesRetry ==
  [][\A r \in Reqs :
       cancelStage[r] # "no" =>
         /\ \A i \in 1..Len(NewEvents(r)) :
              NewEvents(r)[i].type \notin {"model_fallback", "model_retry_start"}
         /\ backendCalls'[r] = backendCalls[r]]_vars

\* The writes to a data file that are in progress: saveMemory calls inside
\* fs.writeFile, cache-save callbacks inside fs.writeFile.
MemoryWriters == {k \in 1..Len(saves) : saves[k].stage = "write"}

CacheWriters == {k \in 1..Len(cacheSaves) : cacheSaves[k].stage \in {"open", "writing"}}

\* C31: each data file is single-writer: at most one write to memory.json
\* and at most one write to response_cache.json is in progress at any time.
C31_SingleWriter ==
  /\ Cardinality(MemoryWriters) <= 1
  /\ Cardinality(CacheWriters) <= 1

KvFind(c, key) == {c[i] : i \in CacheIndex(c, key)}

\* C32: a write of a key and value that the cache already holds leaves the
\* cached keys and every cached value as they were; and after any write the
\* cache holds the value written last for that key.
C32_IdempotentLastWriterWins ==
  kvLast # <<>> =>
    /\ KvFind(kvCache, kvLast[1].key) = {kvLast[1]}
    /\ kvLast[1] \in Range(kvBefore) => Range(kvCache) = Range(kvBefore)

\* C33: a request for which bypassHeavy holds performs no heavy operation:
\* no file auto-selection or loading, no rag lookup, no web search or page
\* fetch, no memory recall, no SQL schema fetch, no planner call.
C33_BypassHeavySkipsAll ==
  ctxBypass => ctxOps = {}

\* C34: a web search or page fetch is performed only if the intent requires
\* web or the user opted in with autoWeb, and never for a follow-up expansion.
C34_WebOnlyWhenAsked ==
  ctxOps \cap {"web_search", "page_fetch"} # {} =>
    /\ RequiresWeb(ctxReq.intent) \/ ctxReq.autoWeb
    /\ ~ctxReq.followup

\* C35: for each user one summary is emitted per 8 messages: never more
\* summaries than whole windows of 8 messages added, and, once no summary
\* is pending and none has failed, exactly as many.
SumQuiet(u) ==
  /\ sumTimers[u] = 0
  /\ \A i \in DOMAIN sumCalls : sumCalls[i].userId # u

C35_OneSummaryPerEightMessages ==
  \A u \in ConvUsers :
    /\ sumEmitted[u] <= sumAdded[u] \div SUMMARY_EVERY_MESSAGES
    /\ (SumQuiet(u) /\ ~sumFailed) =>
         sumEmitted[u] = sumAdded[u] \div SUMMARY_EVERY_MESSAGES

C37_StreamErrorIsRaised ==
  [][\A r \in Reqs :
       (ErrorArrives(r) /\ attemptError'[r].how = "stream") =>
         /\ responseText'[r] = responseText[r]
         /\ \A i \in 1..Len(NewEvents(r)) : NewEvents(r)[i].type # "token"
         /\ pc'[r] # pc[r]]_vars

\* C38: once no saveMemory call is in flight, memory.json holds the last
\* MAX_ENTRIES entries of the current memoryEntries list.
C38_FileEqualsLatestState ==
  saves = <<>> => memoryFile = Trimmed(arrays[memoryEntries])

\* C39: a response set for key k in this run is never replaced by an older
\* value: as long as k is cached, its entry carries the timestamp of the
\* last setCachedResponse for k, also after the initial load completes.
C39_SetSurvivesLoad ==
  \A k \in LdKeys :
    ldSet[k] > 0 =>
      \A i \in 1..Len(ldCache) :
        ldCache[i].key = k => ldCache[i].timestamp = ldSet[k]

\* C40: while a report job is live, the record GET /api/reports/:reportId
\* returns carries the progress and the status of the job's most recent
\* progress callback.
C40_StatusReflectsProgress ==
  \A rid \in ReportIds :
    progPc[rid] = "streaming" =>
      /\ GetReportStatus(rid).status = progLast[rid][1].status
      /\ GetReportStatus(rid).progress = progLast[rid][1].progress

====
